---- MODULE Spec2Model ----
(***************************************************************************)
(* A model of tensorflow/compiler/tf2xla/tf2xla_util.cc: graph pruning,    *)
(* placeholder synthesis for feeds, node replacement, associated-function  *)
(* rewriting, the cached function handles and the XLA random seed.         *)
(*                                                                         *)
(* Strings are sequences of one-character strings, so that formatting      *)
(* (StrCat) and parsing (ParseTensorName) are computed, not assumed.       *)
(***************************************************************************)
EXTENDS Integers, Sequences, FiniteSets, TLC

VARIABLES
    pc,          \* position of the running operation
    config,      \* tf2xla::Config: [feed : Seq(Feed), fetch : Seq(Fetch)]
    graph_def,   \* GraphDef: the sequence of NodeDef of the input graph
    out,         \* PruneGraphDefInto's *out (its node list)
    status,      \* Status returned by the last operation
    feed_remapping, \* AddPlaceholdersForFeeds' *feed_remapping
    graph_before,   \* history: graph_def when AddPlaceholdersForFeeds was called
    counter,     \* GetXLARandomSeed: the static std::atomic<uint32> counter
    guard,       \* the initialization guard of that function-local static
    tpc,         \* position of each thread calling GetXLARandomSeed
    returned,    \* history: the values returned, in the order of the fetch_adds
    initCount,   \* history: how many times InitialRandomSeed has run
    callers,     \* history: the threads that have been returned a value
    contended,   \* history: a fetch_add ran while another thread was at its own
    handles_,    \* CachedFunctionHandles::handles_: canonicalized name -> handle
    instLog,     \* the runtime: the keys instantiated; a handle is its position here
    got,         \* history: the (name, attrs, handle) returned by GetOrInstantiate
    releaseCalls,\* history: how often ReleaseHandle was called on each handle
    lastCall,    \* history: the last call on the cache and its result
    g_nodes,     \* Graph: the nodes
    g_edges,     \* Graph: the edges, a bag of [src, src_output, dst, dst_input]
    gpc,         \* position of the running graph operation
    g_status,    \* Status the graph operation returned
    out_edge_info, \* ReplaceNode: the recorded output edges
    work,        \* the edges the running loop has yet to visit, in its order
    pre_nodes,   \* history: the nodes when the operation was called
    pre_edges,   \* history: the edges when the operation was called
    node_op,     \* the node's type_string()
    node_attrs,  \* the node's attrs(): attribute name -> AttrValue
    fld,         \* FunctionLibraryDefinition: [functions, func_grad_]
    rewritten_function_name, \* RewriteAssociatedFunction's argument
    results,     \* what GetAssociatedFunctions returned
    libLog,      \* history: the calls that changed the library
    pre_fld,     \* history: the library when the operation was called
    pre_attrs,   \* history: the node's attrs when the operation was called
    devices,     \* node -> [assigned_device_name, requested_device, explicit_sharding]
    out_edges,   \* SetNodeShardingFromNeighbors' argument
    pre_devices, \* history: devices when the operation was called
    rerun,       \* what a second AddPlaceholdersForFeeds on the same inputs gave
    hash_seed    \* the hash seeds of the first and of the second run

pruneVars == <<pc, config, graph_def, out, status, feed_remapping, graph_before>>

seedVars == <<counter, guard, tpc, returned, initCount, callers, contended>>

cacheVars == <<handles_, instLog, got, releaseCalls, lastCall>>

graphVars == <<g_nodes, g_edges, gpc, g_status, out_edge_info, work, pre_nodes, pre_edges>>

shardVars == <<devices, out_edges, pre_devices>>

assocVars ==
    <<node_op, node_attrs, fld, rewritten_function_name, results, libLog, pre_fld, pre_attrs,
      shardVars>>

rerunVars == <<rerun, hash_seed>>

vars == <<pruneVars, seedVars, cacheVars, graphVars, assocVars, rerunVars>>

exceptPruneRerun == <<seedVars, cacheVars, graphVars, assocVars>>

exceptPrune == <<seedVars, cacheVars, graphVars, assocVars, rerunVars>>

exceptSeed == <<pruneVars, cacheVars, graphVars, assocVars, rerunVars>>

exceptCache == <<pruneVars, seedVars, graphVars, assocVars, rerunVars>>

exceptGraph == <<pruneVars, seedVars, cacheVars, assocVars, rerunVars>>

exceptGraphAssoc == <<pruneVars, seedVars, cacheVars, rerunVars>>

(***************************************************************************)
(* Strings.                                                                *)
(***************************************************************************)
Digits == <<"0", "1", "2", "3", "4", "5", "6", "7", "8", "9">>

IsDigit(c) == \E i \in 1..Len(Digits) : Digits[i] = c

DigitVal(c) == (CHOOSE i \in 1..Len(Digits) : Digits[i] = c) - 1

RECURSIVE NatToStr(_)
NatToStr(n) ==
    IF n < Len(Digits) THEN <<Digits[n + 1]>>
    ELSE NatToStr(n \div Len(Digits)) \o <<Digits[(n % Len(Digits)) + 1]>>

\* absl::StrCat of an int
IntToStr(n) == IF n < 0 THEN <<"-">> \o NatToStr(-n) ELSE NatToStr(n)

kControlSlot == -1

\* The backwards scan over a run of digits of ParseTensorName: p is the
\* 1-based position of the character under the cursor.
RECURSIVE ScanDigits(_, _, _, _)
ScanDigits(name, p, index, mul) ==
    IF p > 1 /\ IsDigit(name[p])
    THEN ScanDigits(name, p - 1, index + DigitVal(name[p]) * mul, mul * Len(Digits))
    ELSE [p |-> p, index |-> index, mul |-> mul]

\* ParseTensorName: one of name, ^name, name:digits.
ParseTensorName(name) ==
    LET s == ScanDigits(name, Len(name), 0, 1)
    IN  IF s.p > 1 /\ name[s.p] = ":" /\ s.mul > 1
        THEN [first |-> SubSeq(name, 1, s.p - 1), second |-> s.index]
        ELSE IF name # <<>> /\ name[1] = "^"
        THEN [first |-> Tail(name), second |-> kControlSlot]
        ELSE [first |-> name, second |-> 0]

\* TensorId::ToString
TensorIdStr(id) ==
    IF id.second = kControlSlot THEN <<"^">> \o id.first
    ELSE id.first \o <<":">> \o IntToStr(id.second)

\* TensorIdToString(const tf2xla::TensorId&)
TensorIdToString(id) == id.node_name \o <<":">> \o IntToStr(id.output_index)

(***************************************************************************)
(* Status.                                                                 *)
(***************************************************************************)
OK == [code |-> "OK"]

InvalidArgument(what) == [code |-> "InvalidArgument", what |-> what]

NoCall == [op |-> "none"]

EmptyMap == [k \in {} |-> 0]

NoRun == [status |-> OK, graph_def |-> <<>>, feed_remapping |-> EmptyMap]

RerunIdle ==
    /\ rerun = NoRun
    /\ hash_seed = <<0, 0>>

PruneIdle ==
    /\ RerunIdle
    /\ pc = "idle"
    /\ config = [feed |-> <<>>, fetch |-> <<>>]
    /\ graph_def = <<>>
    /\ out = <<>>
    /\ status = OK
    /\ feed_remapping = EmptyMap
    /\ graph_before = <<>>

EmptyBag == [e \in {} |-> 0]

GraphIdle ==
    /\ g_nodes = {}
    /\ g_edges = EmptyBag
    /\ gpc = "idle"
    /\ g_status = OK
    /\ out_edge_info = <<>>
    /\ work = <<>>
    /\ pre_nodes = {}
    /\ pre_edges = EmptyBag

EmptyLibrary == [functions |-> {}, func_grad_ |-> EmptyMap]

ShardIdle ==
    /\ devices = EmptyMap
    /\ out_edges = FALSE
    /\ pre_devices = EmptyMap

AssocIdle ==
    /\ ShardIdle
    /\ node_op = ""
    /\ node_attrs = EmptyMap
    /\ fld = EmptyLibrary
    /\ rewritten_function_name = ""
    /\ results = <<>>
    /\ libLog = <<>>
    /\ pre_fld = EmptyLibrary
    /\ pre_attrs = EmptyMap

CacheIdle ==
    /\ handles_ = EmptyMap
    /\ instLog = <<>>
    /\ got = {}
    /\ releaseCalls = EmptyMap
    /\ lastCall = NoCall

(***************************************************************************)
(* GetXLARandomSeed.                                                       *)
(***************************************************************************)
\* The width of the counter (uint32 in the source), scaled down.
SeedBits == 3

Modulus == 2 ^ SeedBits

\* Half the counter's range: the number of odd values.
Period == 2 ^ (SeedBits - 1)

NumThreads == 2

Threads == 1..NumThreads

\* Calls are followed until one more than Period have returned.
MaxCalls == Period + 1

\* rd() with the low bit left as drawn.
InitialRandomSeedRaw(rd) == rd

\* rd() | 1
InitialRandomSeed(rd) == IF rd % 2 = 0 THEN rd + 1 ELSE rd

\* The value fetch_add(2) stores, in the counter's width.
FetchAddStored(c) == (c + 2) % Modulus

SeedIdle ==
    /\ counter = 0
    /\ guard = "uninit"
    /\ tpc = [t \in Threads |-> "idle"]
    /\ returned = <<>>
    /\ initCount = 0
    /\ callers = {}
    /\ contended = FALSE

\* A thread enters GetXLARandomSeed and reaches the static's guard: the first
\* one takes the initialization, the others wait until it is complete.
Enter(t) ==
    /\ tpc[t] = "idle"
    /\ Len(returned) + Cardinality({u \in Threads : tpc[u] # "idle"}) < MaxCalls
    /\ guard # "initializing"
    /\ IF guard = "uninit"
       THEN /\ guard' = "initializing"
            /\ tpc' = [tpc EXCEPT ![t] = "init"]
       ELSE /\ guard' = guard
            /\ tpc' = [tpc EXCEPT ![t] = "fetch"]
    /\ UNCHANGED <<counter, returned, initCount, callers, contended, exceptSeed>>

\* static std::atomic<uint32> counter(InitialRandomSeed());
InitCounter(t) ==
    /\ tpc[t] = "init"
    /\ \E rd \in 0..(Modulus - 1) : counter' = InitialRandomSeed(rd)
    /\ guard' = "done"
    /\ initCount' = initCount + 1
    /\ tpc' = [tpc EXCEPT ![t] = "fetch"]
    /\ UNCHANGED <<returned, callers, contended, exceptSeed>>

\* A load and a store in place of the atomic read-modify-write: a thread
\* that loaded the same value stores over this thread's update.
FetchAddTorn(t) ==
    /\ tpc[t] = "fetch"
    /\ returned' = Append(returned, counter)
    /\ counter' = IF \E u \in Threads \ {t} : tpc[u] = "fetch"
                  THEN counter ELSE FetchAddStored(counter)
    /\ callers' = callers \cup {t}
    /\ contended' = (contended \/ \E u \in Threads \ {t} : tpc[u] = "fetch")
    /\ tpc' = [tpc EXCEPT ![t] = "idle"]
    /\ UNCHANGED <<guard, initCount, exceptSeed>>

\* return counter.fetch_add(2);
FetchAdd(t) ==
    /\ tpc[t] = "fetch"
    /\ returned' = Append(returned, counter)
    /\ counter' = FetchAddStored(counter)
    /\ callers' = callers \cup {t}
    /\ contended' = (contended \/ \E u \in Threads \ {t} : tpc[u] = "fetch")
    /\ tpc' = [tpc EXCEPT ![t] = "idle"]
    /\ UNCHANGED <<guard, initCount, exceptSeed>>

InitSeed == SeedIdle /\ PruneIdle /\ CacheIdle /\ GraphIdle /\ AssocIdle

NextSeed ==
    \/ \E t \in Threads : Enter(t)
    \/ \E t \in Threads : InitCounter(t)
    \/ \E t \in Threads : FetchAdd(t)

SpecSeed == InitSeed /\ [][NextSeed]_vars

\* C7: under every interleaving the counter is initialized exactly once, each
\* call returns the current counter value and advances it by 2, and no two
\* of any Period (2^31 in the source's width) consecutive calls return the
\* same value.
C7_SeedAtomicNoRepeat ==
    /\ initCount <= 1
    /\ (returned # <<>> \/ guard = "done") => initCount = 1
    /\ \A i \in DOMAIN returned :
          /\ i < Len(returned) => returned[i + 1] = (returned[i] + 2) % Modulus
          /\ i = Len(returned) => counter = (returned[i] + 2) % Modulus
    /\ \A i \in DOMAIN returned, j \in DOMAIN returned :
          (i < j /\ j - i < Period) => returned[i] # returned[j]

\* Every thread has been returned a value, a fetch_add ran while another
\* thread was at its own, and the call Period calls after the first returned
\* the first value again.
C7_Witness ==
    /\ callers = Threads
    /\ contended
    /\ Len(returned) = Period + 1
    /\ returned[Period + 1] = returned[1]

\* C8: every value returned is odd, so never zero, whatever the entropy and
\* also after the counter has wrapped around.
C8_SeedAlwaysOdd ==
    \A i \in DOMAIN returned : returned[i] % 2 = 1 /\ returned[i] # 0

\* The counter has wrapped around: a returned value is below its predecessor.
C8_Witness ==
    \E i \in DOMAIN returned :
        /\ i < Len(returned)
        /\ returned[i + 1] < returned[i]
        /\ returned[i + 1] % 2 = 1

(***************************************************************************)
(* CachedFunctionHandles.                                                  *)
(***************************************************************************)
\* The order of characters std::sort compares strings by (ASCII).
Alphabet ==
    <<",", "-", "/", "0", "1", "2", "3", "4", "5", "6", "7", "8", "9", ":", "=",
      "A", "B", "C", "T", "U", "X", "[", "]", "^", "_",
      "a", "d", "e", "f", "g", "o", "t", "x">>

CharRank(ch) == CHOOSE i \in 1..Len(Alphabet) : Alphabet[i] = ch

RECURSIVE StrLess(_, _)
StrLess(a, b) ==
    IF b = <<>> THEN FALSE
    ELSE IF a = <<>> THEN TRUE
    ELSE IF Head(a) # Head(b) THEN CharRank(Head(a)) < CharRank(Head(b))
    ELSE StrLess(Tail(a), Tail(b))

\* std::sort of the entries
RECURSIVE SortStrs(_)
SortStrs(ss) ==
    IF ss = <<>> THEN <<>>
    ELSE LET i == CHOOSE k \in DOMAIN ss : \A j \in DOMAIN ss : ~StrLess(ss[j], ss[k])
         IN  <<ss[i]>> \o SortStrs([k \in 1..(Len(ss) - 1) |-> IF k < i THEN ss[k] ELSE ss[k + 1]])

RECURSIVE StrJoin(_, _)
StrJoin(ss, sep) ==
    IF ss = <<>> THEN <<>>
    ELSE IF Len(ss) = 1 THEN ss[1]
    ELSE ss[1] \o sep \o StrJoin(Tail(ss), sep)

\* Canonicalize(func_name, attrs): name[k1=v1,k2=v2] with the entries sorted.
\* attrs is the sequence of (name, value) pairs as the AttrSlice yields them.
Canonicalize(func_name, attrs) ==
    func_name \o <<"[">>
    \o StrJoin(SortStrs([i \in DOMAIN attrs |-> attrs[i][1] \o <<"=">> \o attrs[i][2]]), <<",">>)
    \o <<"]">>

\* The cache keyed by the function's name alone.
CacheKeyNameOnly(func_name, attrs) == func_name

\* string canonicalized_name = Canonicalize(func_name, attrs);
CacheKey(func_name, attrs) == Canonicalize(func_name, attrs)

Put(m, k, v) == [x \in DOMAIN m \cup {k} |-> IF x = k THEN v ELSE m[x]]

Range(m) == {m[x] : x \in DOMAIN m}

\* The number of instantiations the runtime is asked for in one behaviour.
MaxHandles == 2

FuncNames == {<<"f">>, <<"g">>}

\* The attrs of a call, in the order the caller's AttrSlice yields them.
AttrLists ==
    { <<>>,
      << <<<<"T">>, <<"1">>>> >>,
      << <<<<"T">>, <<"1">>>>, <<<<"U">>, <<"1">>>> >>,
      << <<<<"U">>, <<"1">>>>, <<<<"T">>, <<"1">>>> >> }

\* The attrs as the map they denote.
AttrMap(attrs) == {attrs[i] : i \in DOMAIN attrs}

InternalError(what) == [code |-> "Internal", what |-> what]

\* CachedFunctionHandles::GetOrInstantiate; flr_->Instantiate succeeds with a
\* fresh handle or fails.
GetOrInstantiate(func_name, attrs) ==
    LET canonicalized_name == CacheKey(func_name, attrs)
    IN  /\ IF canonicalized_name \in DOMAIN handles_
           THEN /\ lastCall' = [op |-> "get", func_name |-> func_name, attrs |-> attrs,
                                hit |-> TRUE, status |-> OK,
                                handle |-> handles_[canonicalized_name]]
                /\ got' = got \cup {<<func_name, attrs, handles_[canonicalized_name]>>}
                /\ UNCHANGED <<handles_, instLog>>
           ELSE \/ /\ Len(instLog) < MaxHandles
                   /\ instLog' = Append(instLog, <<func_name, AttrMap(attrs)>>)
                   /\ handles_' = Put(handles_, canonicalized_name, Len(instLog) + 1)
                   /\ got' = got \cup {<<func_name, attrs, Len(instLog) + 1>>}
                   /\ lastCall' = [op |-> "get", func_name |-> func_name, attrs |-> attrs,
                                   hit |-> FALSE, status |-> OK,
                                   handle |-> Len(instLog) + 1]
                \/ /\ lastCall' = [op |-> "get", func_name |-> func_name, attrs |-> attrs,
                                   hit |-> FALSE, status |-> InternalError(<<"instantiate">>),
                                   handle |-> 0]
                   /\ UNCHANGED <<handles_, instLog, got>>
        /\ UNCHANGED <<releaseCalls, exceptCache>>

\* Status::Update: the first error is kept.
Update(result, new_status) == IF result.code = "OK" THEN new_status ELSE result

\* flr_->ReleaseHandle(handle), which fails for the handles in fails
ReleaseHandle(handle, fails) ==
    IF handle \in fails THEN InternalError(<<"release", handle>>) ELSE OK

\* The loop of ReleaseAllHandles over handles_ in the order the map yields
\* its entries; released lists the handles passed to ReleaseHandle.
RECURSIVE ReleaseLoop(_, _, _, _, _)
ReleaseLoop(h_map, order, fails, result, released) ==
    IF order = <<>> THEN [status |-> result, released |-> released]
    ELSE ReleaseLoop(h_map, Tail(order), fails,
                     Update(result, ReleaseHandle(h_map[Head(order)], fails)),
                     Append(released, h_map[Head(order)]))

\* The loop returning at the first failed release (TF_RETURN_IF_ERROR), the
\* cache left as it was.
RECURSIVE ReleaseLoopReturning(_, _, _, _)
ReleaseLoopReturning(h_map, order, fails, released) ==
    IF order = <<>> THEN [status |-> OK, released |-> released, handles |-> EmptyMap]
    ELSE IF h_map[Head(order)] \in fails
    THEN [status |-> ReleaseHandle(h_map[Head(order)], fails),
          released |-> Append(released, h_map[Head(order)]), handles |-> h_map]
    ELSE ReleaseLoopReturning(h_map, Tail(order), fails, Append(released, h_map[Head(order)]))

ReleaseAllHandlesReturning(h_map, order, fails) ==
    ReleaseLoopReturning(h_map, order, fails, <<>>)

\* The handles released and left in the cache.
ReleaseAllHandlesKeeping(h_map, order, fails) ==
    LET r == ReleaseLoop(h_map, order, fails, OK, <<>>)
    IN  [status |-> r.status, released |-> r.released, handles |-> h_map]

\* CachedFunctionHandles::ReleaseAllHandles on the cache h_map
ReleaseAllHandlesOn(h_map, order, fails) ==
    LET r == ReleaseLoop(h_map, order, fails, OK, <<>>)
    IN  [status |-> r.status, released |-> r.released, handles |-> EmptyMap]

\* The orders in which a map can yield its entries.
Orders(m) ==
    {o \in [1..Cardinality(DOMAIN m) -> DOMAIN m] :
        \A i \in DOMAIN o, j \in DOMAIN o : o[i] = o[j] => i = j}

Count(seq, x) == Cardinality({i \in DOMAIN seq : seq[i] = x})

ReleaseAllHandles ==
    \E order \in Orders(handles_), fails \in SUBSET Range(handles_) :
        LET r == ReleaseAllHandlesOn(handles_, order, fails)
        IN  /\ handles_' = r.handles
            /\ releaseCalls' =
                  [h \in DOMAIN releaseCalls \cup Range(handles_) |->
                      (IF h \in DOMAIN releaseCalls THEN releaseCalls[h] ELSE 0)
                      + Count(r.released, h)]
            /\ lastCall' = [op |-> "release_all", before |-> handles_, fails |-> fails,
                            released |-> r.released, status |-> r.status]
            /\ UNCHANGED <<instLog, got, exceptCache>>

InitCache == CacheIdle /\ PruneIdle /\ SeedIdle /\ GraphIdle /\ AssocIdle

NextCacheGet ==
    \E func_name \in FuncNames, attrs \in AttrLists : GetOrInstantiate(func_name, attrs)

\* A sequence of GetOrInstantiate calls on one cache.
SpecCacheGet == InitCache /\ [][NextCacheGet]_vars

NextCache ==
    \/ \E func_name \in FuncNames, attrs \in AttrLists : GetOrInstantiate(func_name, attrs)
    \/ ReleaseAllHandles

SpecCache == InitCache /\ [][NextCache]_vars

\* C5: in a sequence of GetOrInstantiate calls, two calls with the same
\* (name, attrs) return the same handle, the runtime instantiates a
\* (name, attrs) at most once, and calls whose canonical keys differ are not
\* served from one cache entry.
C5_SameKeySameHandle ==
    /\ \A a \in got, b \in got :
          /\ (a[1] = b[1] /\ AttrMap(a[2]) = AttrMap(b[2])) => a[3] = b[3]
          /\ Canonicalize(a[1], a[2]) # Canonicalize(b[1], b[2]) => a[3] # b[3]
    /\ \A i \in DOMAIN instLog, j \in DOMAIN instLog : instLog[i] = instLog[j] => i = j

\* A call served from the cache for attrs that an earlier call gave in
\* another order, with a second key cached beside it.
C5_Witness ==
    /\ lastCall.op = "get" /\ lastCall.hit
    /\ Len(instLog) >= 2
    /\ \E a \in got :
          /\ a[1] = lastCall.func_name
          /\ a[2] # lastCall.attrs
          /\ AttrMap(a[2]) = AttrMap(lastCall.attrs)
          /\ a[3] = lastCall.handle

\* How often ReleaseHandle has been called on a handle.
Releases(h) == IF h \in DOMAIN releaseCalls THEN releaseCalls[h] ELSE 0

\* C20: over any sequence of GetOrInstantiate and ReleaseAllHandles calls on
\* one cache, the runtime giving a fresh handle per instantiation: no handle
\* is passed to ReleaseHandle more than once; a handle GetOrInstantiate
\* returns has not been released; and right after a ReleaseAllHandles every
\* handle instantiated so far has been passed to ReleaseHandle exactly once.
C20_ReleasedOnceNeverReturned ==
    /\ \A h \in DOMAIN releaseCalls : releaseCalls[h] <= 1
    /\ (lastCall.op = "get" /\ lastCall.status.code = "OK") =>
          /\ lastCall.handle \in 1..Len(instLog)
          /\ Releases(lastCall.handle) = 0
    /\ \A h \in Range(handles_) : Releases(h) = 0
    /\ lastCall.op = "release_all" =>
          \A h \in 1..Len(instLog) : Releases(h) = 1

\* A second ReleaseAllHandles, on a cache that instantiated again after the
\* first one.
C20_Witness ==
    /\ lastCall.op = "release_all"
    /\ Len(instLog) = 2
    /\ Cardinality(DOMAIN lastCall.before) = 1
    /\ \A h \in 1..Len(instLog) : Releases(h) = 1

\* C6: ReleaseAllHandles calls ReleaseHandle on every cached handle, also on
\* those after a failed release; it returns OK exactly when every release
\* succeeded and otherwise the error of a failed release; and the cache is
\* empty afterwards in both cases.
C6_ReleaseAll ==
    lastCall.op = "release_all" =>
        /\ \A h \in Range(lastCall.before) : Count(lastCall.released, h) = 1
        /\ Len(lastCall.released) = Cardinality(DOMAIN lastCall.before)
        /\ (lastCall.status.code = "OK") <=> (lastCall.fails = {})
        /\ lastCall.status.code # "OK" =>
              \E h \in lastCall.fails : lastCall.status = ReleaseHandle(h, lastCall.fails)
        /\ handles_ = EmptyMap

\* A release of two handles of which the first release failed and the second,
\* made all the same, succeeded.
C6_Witness ==
    /\ lastCall.op = "release_all"
    /\ Len(lastCall.released) = 2
    /\ lastCall.released[1] \in lastCall.fails
    /\ lastCall.released[2] \notin lastCall.fails
    /\ lastCall.status.code # "OK"
    /\ handles_ = EmptyMap

(***************************************************************************)
(* Graph, ReplaceNode and RewriteAssociatedFunction.                       *)
(***************************************************************************)
Edge(src, src_output, dst, dst_input) ==
    [src |-> src, src_output |-> src_output, dst |-> dst, dst_input |-> dst_input]

\* Edge::IsControlEdge
IsControlEdge(e) == e.src_output = kControlSlot

\* Graph::AddEdge: one more edge object with these ends
AddEdge(edges, e) ==
    IF e \in DOMAIN edges THEN [edges EXCEPT ![e] = @ + 1] ELSE edges @@ (e :> 1)

\* Graph::RemoveEdge: one edge object less
RemoveEdge(edges, e) ==
    IF edges[e] > 1 THEN [edges EXCEPT ![e] = @ - 1]
    ELSE [x \in DOMAIN edges \ {e} |-> edges[x]]

\* Graph::RemoveNode: the node goes, and every edge in or out of it
RemoveNodeEdges(edges, node) ==
    [x \in {e \in DOMAIN edges : e.src # node /\ e.dst # node} |-> edges[x]]

\* n->out_edges() and n->in_edges(), as bags
OutEdges(edges, node) == [x \in {e \in DOMAIN edges : e.src = node} |-> edges[x]]

InEdges(edges, node) == [x \in {e \in DOMAIN edges : e.dst = node} |-> edges[x]]

RECURSIVE SumOver(_, _)
SumOver(bag, S) ==
    IF S = {} THEN 0
    ELSE LET x == CHOOSE y \in S : TRUE IN bag[x] + SumOver(bag, S \ {x})

BagSize(bag) == SumOver(bag, DOMAIN bag)

\* The orders in which an EdgeSet can yield its edges.
EdgeOrders(bag) ==
    {o \in [1..BagSize(bag) -> DOMAIN bag] : \A e \in DOMAIN bag : Count(o, e) = bag[e]}

\* The node being replaced, another node of the graph, and the new node.
OldNode == "n"

OtherNode == "m"

NewNode == "new"

GraphSlots == 0..1

MaxEdges == 3

CandidateEdges ==
    {Edge(s, so, d, di) : s \in {OldNode, OtherNode}, so \in GraphSlots,
                          d \in {OldNode, OtherNode}, di \in GraphSlots}
    \cup {Edge(s, kControlSlot, d, kControlSlot) :
            s \in {OldNode, OtherNode}, d \in {OldNode, OtherNode}}

RECURSIVE SubsetsUpTo(_, _)
SubsetsUpTo(S, k) ==
    IF k = 0 THEN {{}}
    ELSE LET smaller == SubsetsUpTo(S, k - 1)
         IN  smaller \cup {T \cup {x} : T \in smaller, x \in S}

\* Every (destination node, input slot) has at most one data-edge producer.
AtMostOneProducer(edges) ==
    \A e \in DOMAIN edges :
        ~IsControlEdge(e) =>
            /\ edges[e] = 1
            /\ \A f \in DOMAIN edges :
                  (~IsControlEdge(f) /\ f.dst = e.dst /\ f.dst_input = e.dst_input) => f = e

\* The graphs on n and m with at most MaxEdges edges: a set of edges, some of
\* its control edges present twice.
InitialEdgeBags ==
    {[e \in S |-> IF e \in D THEN 2 ELSE 1] :
        <<S, D>> \in {sd \in SubsetsUpTo(CandidateEdges, MaxEdges)
                              \X SubsetsUpTo({c \in CandidateEdges : IsControlEdge(c)}, 1) :
                        /\ sd[2] \subseteq sd[1]
                        /\ Cardinality(sd[1]) + Cardinality(sd[2]) <= MaxEdges}}

InitGraph ==
    /\ g_nodes = {OldNode, OtherNode}
    /\ g_edges \in {b \in InitialEdgeBags : AtMostOneProducer(b)}
    /\ gpc = "start"
    /\ g_status = OK
    /\ out_edge_info = <<>>
    /\ work = <<>>
    /\ pre_nodes = g_nodes
    /\ pre_edges = g_edges
    /\ PruneIdle /\ SeedIdle /\ CacheIdle /\ AssocIdle

\* ReplaceNode with the status of AddNode looked at only after the output
\* edges have been detached.
ReplaceAddNodeLateCheck ==
    /\ gpc = "start"
    /\ \/ /\ g_nodes' = g_nodes \cup {NewNode}
          /\ gpc' = "record"
          /\ UNCHANGED <<g_edges, g_status>>
       \/ /\ g_status' = InvalidArgument(<<"node_def">>)
          /\ g_edges' = [x \in {e \in DOMAIN g_edges : e.src # OldNode} |-> g_edges[x]]
          /\ gpc' = "done"
          /\ UNCHANGED g_nodes
    /\ UNCHANGED <<out_edge_info, work, pre_nodes, pre_edges, exceptGraph>>

\* ReplaceNode: g->AddNode(node_def, &s), which builds the node or fails
\* leaving the graph as it is; a failure is returned.
ReplaceAddNode ==
    /\ gpc = "start"
    /\ \/ /\ g_nodes' = g_nodes \cup {NewNode}
          /\ gpc' = "record"
          /\ UNCHANGED g_status
       \/ /\ g_status' = InvalidArgument(<<"node_def">>)
          /\ gpc' = "done"
          /\ UNCHANGED g_nodes
    /\ UNCHANGED <<g_edges, out_edge_info, work, pre_nodes, pre_edges, exceptGraph>>

\* The output edges recorded and left attached.
ReplaceRecordOutEdgesOnly ==
    /\ gpc = "record"
    /\ \E o \in EdgeOrders(OutEdges(g_edges, OldNode)) : out_edge_info' = o
    /\ work' = <<>>
    /\ gpc' = "remove_out"
    /\ UNCHANGED <<g_nodes, g_edges, g_status, pre_nodes, pre_edges, exceptGraph>>

\* ReplaceNode: record the original node's output edges.
ReplaceRecordOutEdges ==
    /\ gpc = "record"
    /\ \E o \in EdgeOrders(OutEdges(g_edges, OldNode)) :
          /\ out_edge_info' = o
          /\ work' = o
    /\ gpc' = "remove_out"
    /\ UNCHANGED <<g_nodes, g_edges, g_status, pre_nodes, pre_edges, exceptGraph>>

\* ReplaceNode: g->RemoveEdge(edge) for the next recorded output edge.
ReplaceRemoveOutEdge ==
    /\ gpc = "remove_out"
    /\ work # <<>>
    /\ g_edges' = RemoveEdge(g_edges, Head(work))
    /\ work' = Tail(work)
    /\ UNCHANGED <<g_nodes, gpc, g_status, out_edge_info, pre_nodes, pre_edges, exceptGraph>>

\* ReplaceNode: the loop over n->in_edges() begins.
ReplaceBeginInEdges ==
    /\ gpc = "remove_out"
    /\ work = <<>>
    /\ \E o \in EdgeOrders(InEdges(g_edges, OldNode)) : work' = o
    /\ gpc' = "add_in"
    /\ UNCHANGED <<g_nodes, g_edges, g_status, out_edge_info, pre_nodes, pre_edges, exceptGraph>>

\* ReplaceNode: g->AddEdge(in_edge->src(), in_edge->src_output(), new_node,
\* in_edge->dst_input())
ReplaceAddInEdge ==
    /\ gpc = "add_in"
    /\ work # <<>>
    /\ LET in_edge == Head(work)
       IN  g_edges' = AddEdge(g_edges, Edge(in_edge.src, in_edge.src_output,
                                            NewNode, in_edge.dst_input))
    /\ work' = Tail(work)
    /\ UNCHANGED <<g_nodes, gpc, g_status, out_edge_info, pre_nodes, pre_edges, exceptGraph>>

\* ReplaceNode: the loop over out_edge_info begins.
ReplaceBeginOutEdges ==
    /\ gpc = "add_in"
    /\ work = <<>>
    /\ work' = out_edge_info
    /\ gpc' = "add_out"
    /\ UNCHANGED <<g_nodes, g_edges, g_status, out_edge_info, pre_nodes, pre_edges, exceptGraph>>

\* ReplaceNode: g->AddEdge(new_node, out_edge.src_output, out_edge.dst,
\* out_edge.dst_input)
ReplaceAddOutEdge ==
    /\ gpc = "add_out"
    /\ work # <<>>
    /\ LET out_edge == Head(work)
       IN  g_edges' = AddEdge(g_edges, Edge(NewNode, out_edge.src_output,
                                            out_edge.dst, out_edge.dst_input))
    /\ work' = Tail(work)
    /\ UNCHANGED <<g_nodes, gpc, g_status, out_edge_info, pre_nodes, pre_edges, exceptGraph>>

\* ReplaceNode: g->RemoveNode(n); return new_node.
ReplaceRemoveNode ==
    /\ gpc = "add_out"
    /\ work = <<>>
    /\ g_nodes' = g_nodes \ {OldNode}
    /\ g_edges' = RemoveNodeEdges(g_edges, OldNode)
    /\ g_status' = OK
    /\ gpc' = "done"
    /\ UNCHANGED <<out_edge_info, work, pre_nodes, pre_edges, exceptGraph>>

NextReplace ==
    \/ ReplaceAddNode
    \/ ReplaceRecordOutEdges
    \/ ReplaceRemoveOutEdge
    \/ ReplaceBeginInEdges
    \/ ReplaceAddInEdge
    \/ ReplaceBeginOutEdges
    \/ ReplaceAddOutEdge
    \/ ReplaceRemoveNode

SpecReplace == InitGraph /\ [][NextReplace]_vars

\* The edges in or out of a node, as a bag.
Incident(edges, node) ==
    [x \in {e \in DOMAIN edges : e.src = node \/ e.dst = node} |-> edges[x]]

\* An edge with the old node's end or ends moved to the new node.
Moved(e) ==
    Edge(IF e.src = OldNode THEN NewNode ELSE e.src, e.src_output,
         IF e.dst = OldNode THEN NewNode ELSE e.dst, e.dst_input)

MovedBag(edges) ==
    [x \in {Moved(e) : e \in DOMAIN edges} |->
        edges[CHOOSE e \in DOMAIN edges : Moved(e) = x]]

\* C2: after a successful ReplaceNode the old node is gone and the edges in
\* and out of the new node are, as a multiset, those that were in and out of
\* the old node with that end moved to the new node, so that the graph has as
\* many edges as before; also when the old node has an edge to itself.
C2_ReplacePreservesTopology ==
    (gpc = "done" /\ g_status.code = "OK") =>
        /\ OldNode \notin g_nodes
        /\ NewNode \in g_nodes
        /\ Incident(g_edges, NewNode) = MovedBag(Incident(pre_edges, OldNode))
        /\ BagSize(g_edges) = BagSize(pre_edges)

\* C17: in every state of a ReplaceNode on a graph with at most one data
\* producer per (node, input) there is at most one data producer per (node,
\* input); the new node has an edge only once the old node has no edge out;
\* it has an edge out only once every edge into the old node has its copy
\* into the new node; and the old node is gone only once every recorded edge
\* out to another node has its copy out of the new node.
C17_ReplaceOrderOneProducer ==
    /\ AtMostOneProducer(g_edges)
    /\ (OldNode \in g_nodes /\ Incident(g_edges, NewNode) # EmptyBag) =>
          OutEdges(g_edges, OldNode) = EmptyBag
    /\ (OldNode \in g_nodes /\ OutEdges(g_edges, NewNode) # EmptyBag) =>
          \A e \in DOMAIN InEdges(g_edges, OldNode) :
              e.src # NewNode =>
                  /\ Edge(e.src, e.src_output, NewNode, e.dst_input) \in DOMAIN g_edges
                  /\ g_edges[Edge(e.src, e.src_output, NewNode, e.dst_input)] = g_edges[e]
    /\ (OldNode \notin g_nodes /\ pre_nodes # {}) =>
          \A e \in DOMAIN OutEdges(pre_edges, OldNode) :
              e.dst # OldNode =>
                  /\ Edge(NewNode, e.src_output, e.dst, e.dst_input) \in DOMAIN g_edges
                  /\ g_edges[Edge(NewNode, e.src_output, e.dst, e.dst_input)] = pre_edges[e]

\* The state between two reattachments: the old node still there with a
\* data edge in, the new node with the copy of it and a data edge out, and a
\* recorded data edge yet to reattach.
C17_Witness ==
    /\ gpc = "add_out" /\ work # <<>> /\ ~IsControlEdge(Head(work))
    /\ \E e \in DOMAIN InEdges(g_edges, OldNode) : ~IsControlEdge(e) /\ e.src # NewNode
    /\ \E e \in DOMAIN OutEdges(g_edges, NewNode) : ~IsControlEdge(e)

\* C9: a ReplaceNode that fails returns the error and leaves the graph as it
\* was called on: the same nodes and the same edges, the old node among them.
C9_FailedReplaceLeavesGraph ==
    (gpc = "done" /\ g_status.code # "OK") =>
        /\ g_nodes = pre_nodes
        /\ g_edges = pre_edges
        /\ OldNode \in g_nodes

\* A failed ReplaceNode of a node that has an edge out, an edge in and a
\* control edge.
C9_Witness ==
    /\ gpc = "done" /\ g_status.code = "InvalidArgument"
    /\ \E e \in DOMAIN pre_edges : e.src = OldNode /\ e.dst = OtherNode
    /\ \E e \in DOMAIN pre_edges : e.dst = OldNode /\ e.src = OtherNode
    /\ \E e \in DOMAIN pre_edges : IsControlEdge(e) /\ (e.src = OldNode \/ e.dst = OldNode)

\* Node::num_inputs, taken to be the least count that holds the node's data
\* in-edges.
NumInputs(edges, node) ==
    LET slots == {e.dst_input : e \in {f \in DOMAIN edges : f.dst = node /\ ~IsControlEdge(f)}}
    IN  IF slots = {} THEN 0 ELSE 1 + (CHOOSE k \in slots : \A j \in slots : j <= k)

\* node->input_node(i, &input_node) succeeds for every i < num_inputs
HasAllInputs(edges, node) ==
    \A i \in 0..(NumInputs(edges, node) - 1) :
        \E e \in DOMAIN edges : e.dst = node /\ ~IsControlEdge(e) /\ e.dst_input = i

\* RewriteAssociatedFunction, kFunctionCallNode: build the NodeDef of the call
\* to the rewritten function and add the node; an input without an edge, a
\* failed Finalize or a failed AddNode is returned with the graph as it was.
RewriteBuildNode ==
    /\ gpc = "start"
    /\ \/ /\ HasAllInputs(g_edges, OldNode)
          /\ g_nodes' = g_nodes \cup {NewNode}
          /\ \E o \in EdgeOrders(InEdges(g_edges, OldNode)) : work' = o
          /\ gpc' = "rw_in"
          /\ UNCHANGED g_status
       \/ /\ g_status' = InvalidArgument(<<"node_def">>)
          /\ gpc' = "done"
          /\ UNCHANGED <<g_nodes, work>>
    /\ UNCHANGED <<g_edges, out_edge_info, pre_nodes, pre_edges, exceptGraph>>

\* graph->AddEdge(edge->src(), edge->src_output(), new_node, edge->dst_input())
RewriteAddInEdge ==
    /\ gpc = "rw_in"
    /\ work # <<>>
    /\ LET edge == Head(work)
       IN  g_edges' = AddEdge(g_edges, Edge(edge.src, edge.src_output,
                                            NewNode, edge.dst_input))
    /\ work' = Tail(work)
    /\ UNCHANGED <<g_nodes, gpc, g_status, out_edge_info, pre_nodes, pre_edges, exceptGraph>>

\* The loop over node->out_edges() begins, the node's edges still in place.
RewriteBeginOutEdges ==
    /\ gpc = "rw_in"
    /\ work = <<>>
    /\ \E o \in EdgeOrders(OutEdges(g_edges, OldNode)) : work' = o
    /\ gpc' = "rw_out"
    /\ UNCHANGED <<g_nodes, g_edges, g_status, out_edge_info, pre_nodes, pre_edges, exceptGraph>>

\* graph->AddEdge(new_node, edge->src_output(), edge->dst(), edge->dst_input())
RewriteAddOutEdge ==
    /\ gpc = "rw_out"
    /\ work # <<>>
    /\ LET edge == Head(work)
       IN  g_edges' = AddEdge(g_edges, Edge(NewNode, edge.src_output,
                                            edge.dst, edge.dst_input))
    /\ work' = Tail(work)
    /\ UNCHANGED <<g_nodes, gpc, g_status, out_edge_info, pre_nodes, pre_edges, exceptGraph>>

\* graph->RemoveNode(node)
RewriteRemoveNode ==
    /\ gpc = "rw_out"
    /\ work = <<>>
    /\ g_nodes' = g_nodes \ {OldNode}
    /\ g_edges' = RemoveNodeEdges(g_edges, OldNode)
    /\ g_status' = OK
    /\ gpc' = "done"
    /\ UNCHANGED <<out_edge_info, work, pre_nodes, pre_edges, exceptGraph>>

NextRewrite ==
    \/ RewriteBuildNode
    \/ RewriteAddInEdge
    \/ RewriteBeginOutEdges
    \/ RewriteAddOutEdge
    \/ RewriteRemoveNode

SpecRewrite == InitGraph /\ [][NextRewrite]_vars

\* C3: rewriting a function call node swaps the node as ReplaceNode does: the
\* new node takes over every edge in and out of the original, the original is
\* removed, and in every state in between each (destination node, input slot)
\* has at most one data-edge producer.
C3_RewriteSwapsLikeReplaceNode ==
    /\ AtMostOneProducer(g_edges)
    /\ (gpc = "done" /\ g_status.code = "OK") =>
          /\ OldNode \notin g_nodes
          /\ Incident(g_edges, NewNode) = MovedBag(Incident(pre_edges, OldNode))

(***************************************************************************)
(* PruneGraphDefInto.                                                      *)
(***************************************************************************)
\* feed_tensors: the (node name, output index) pairs of config.feed()
FeedTensors(cfg) ==
    {<<cfg.feed[i].id.node_name, cfg.feed[i].id.output_index>> : i \in DOMAIN cfg.feed}

\* node_by_name: the last node of each name (operator[] overwrites)
NodeByName(in) ==
    [name \in {in[i].name : i \in DOMAIN in} |->
        in[CHOOSE i \in DOMAIN in :
              /\ in[i].name = name
              /\ \A j \in DOMAIN in : in[j].name = name => j <= i]]

\* feed_tensors.find(make_pair(node_name, id.second)) != feed_tensors.end()
IsFedAnySlot(feed_tensors, node_name, slot) ==
    \E f \in feed_tensors : f[1] = node_name

IsFed(feed_tensors, node_name, slot) == <<node_name, slot>> \in feed_tensors

\* The names pushed for the inputs of a visited node, in input order.
RECURSIVE PushInputs(_, _)
PushInputs(inputs, feed_tensors) ==
    IF inputs = <<>> THEN <<>>
    ELSE LET id == ParseTensorName(Head(inputs))
         IN  (IF IsFed(feed_tensors, id.first, id.second) THEN <<>> ELSE <<id.first>>)
             \o PushInputs(Tail(inputs), feed_tensors)

\* The while loop over name_queue; visited is the set of names whose
\* map_entry.first is true.
RECURSIVE Traverse(_, _, _, _)
Traverse(name_queue, visited, node_by_name, feed_tensors) ==
    IF name_queue = <<>> THEN [status |-> OK, visited |-> visited]
    ELSE LET name == Head(name_queue)
             rest == Tail(name_queue)
         IN  IF name \notin DOMAIN node_by_name
             THEN [status |-> InvalidArgument(name), visited |-> visited]
             ELSE IF name \in visited
             THEN Traverse(rest, visited, node_by_name, feed_tensors)
             ELSE Traverse(rest \o PushInputs(node_by_name[name].input, feed_tensors),
                           visited \cup {name}, node_by_name, feed_tensors)

\* The copy loop stopping one node short of in.node_size().
CopyReachableShort(in, visited) ==
    SelectSeq(SubSeq(in, 1, Len(in) - 1), LAMBDA node : node.name \in visited)

\* The copy loop: the nodes of in that are marked, in the order of in.
CopyReachable(in, visited) ==
    SelectSeq(in, LAMBDA node : node.name \in visited)

FetchNames(cfg) == [i \in DOMAIN cfg.fetch |-> cfg.fetch[i].id.node_name]

\* The traversal's error dropped: whatever was visited is copied.
PruneGraphDefIntoUnchecked(cfg, in) ==
    LET t == Traverse(FetchNames(cfg), {}, NodeByName(in), FeedTensors(cfg))
    IN  [status |-> OK, node |-> CopyReachable(in, t.visited)]

PruneGraphDefInto(cfg, in) ==
    LET feed_tensors == FeedTensors(cfg)
        t == Traverse(FetchNames(cfg), {}, NodeByName(in), feed_tensors)
    IN  IF t.status.code # "OK" THEN [status |-> t.status, node |-> <<>>]
        ELSE [status |-> OK, node |-> CopyReachable(in, t.visited)]

(***************************************************************************)
(* The inputs the operations are run on.                                   *)
(***************************************************************************)
MaxSlot == 1

Slots == 0..MaxSlot

\* The names of the nodes of the input graph, in the graph's order.
NodeNames == << <<"A">>, <<"B">>, <<"C">> >>

\* A name no node of the graph has.
MissingName == <<"X">>

Names == {NodeNames[i] : i \in DOMAIN NodeNames} \cup {MissingName}

\* The input strings of a NodeDef: name, ^name and name:slot.
InputStrings ==
    UNION {{m, <<"^">> \o m} \cup {m \o <<":">> \o IntToStr(k) : k \in Slots} : m \in Names}

DT_INVALID == "DT_INVALID"

TensorIds(names) == [node_name : names, output_index : Slots]

SeqsUpTo1(S) == {<<>>} \cup {<<x>> : x \in S}

SeqsUpTo2(S) == SeqsUpTo1(S) \cup {<<x, y>> : x \in S, y \in S}

PruneFeeds == [id : TensorIds(Names), type : {DT_INVALID}, shape : {<<>>}]

PruneFetches == [id : [node_name : Names, output_index : {0}]]

\* At most one feed, and one or two fetches.
PruneConfigs == [feed : SeqsUpTo1(PruneFeeds), fetch : SeqsUpTo2(PruneFetches) \ {<<>>}]

NodeDef(name, op, input) == [name |-> name, op |-> op, input |-> input, attr |-> EmptyMap]

\* Where the inputs of a graph go: (node index, input string) pairs, the
\* inputs of one node in their order.
Placements ==
    {pl \in SeqsUpTo2((DOMAIN NodeNames) \X InputStrings) :
        \A i \in DOMAIN pl, j \in DOMAIN pl : i < j => pl[i][1] <= pl[j][1]}

RECURSIVE InputsAt(_, _)
InputsAt(pl, i) ==
    IF pl = <<>> THEN <<>>
    ELSE (IF Head(pl)[1] = i THEN <<Head(pl)[2]>> ELSE <<>>) \o InputsAt(Tail(pl), i)

\* The graphs A, B, C with at most two inputs between them.
PruneGraphs ==
    {[i \in DOMAIN NodeNames |-> NodeDef(NodeNames[i], "Op", InputsAt(pl, i))] :
        pl \in Placements}

InitPrune ==
    /\ pc = "start"
    /\ config \in PruneConfigs
    /\ graph_def \in PruneGraphs
    /\ out = <<>>
    /\ status = OK
    /\ feed_remapping = EmptyMap
    /\ graph_before = <<>>
    /\ RerunIdle
    /\ SeedIdle
    /\ CacheIdle
    /\ GraphIdle
    /\ AssocIdle

\* prune(config, graph)
Prune ==
    /\ pc = "start"
    /\ LET r == PruneGraphDefInto(config, graph_def)
       IN  /\ out' = r.node
           /\ status' = r.status
    /\ pc' = "pruned"
    /\ UNCHANGED <<config, graph_def, feed_remapping, graph_before, exceptPrune>>

\* prune(config, prune(config, graph))
PruneAgain ==
    /\ pc = "pruned"
    /\ status.code = "OK"
    /\ graph_def' = out
    /\ LET r == PruneGraphDefInto(config, out)
       IN  /\ out' = r.node
           /\ status' = r.status
    /\ pc' = "repruned"
    /\ UNCHANGED <<config, feed_remapping, graph_before, exceptPrune>>

NextPrune == Prune \/ PruneAgain

SpecPrune == InitPrune /\ [][NextPrune]_vars

(***************************************************************************)
(* C1, C10: what prune returns.                                            *)
(***************************************************************************)
\* The sources of the inputs of a node that no feed cuts.
UncutSources(cfg, node) ==
    {ParseTensorName(node.input[j]).first :
        j \in {k \in DOMAIN node.input :
                 LET id == ParseTensorName(node.input[k])
                 IN  \A f \in DOMAIN cfg.feed :
                        \/ cfg.feed[f].id.node_name # id.first
                        \/ cfg.feed[f].id.output_index # id.second}}

\* One round of the closure: the fetches, and the uncut sources of the nodes
\* named in R.
Needed(cfg, in, R) ==
    {cfg.fetch[i].id.node_name : i \in DOMAIN cfg.fetch}
    \cup UNION {UncutSources(cfg, in[i]) : i \in {k \in DOMAIN in : in[k].name \in R}}

RECURSIVE LeastNeeded(_, _, _)
LeastNeeded(cfg, in, R) ==
    LET next == R \cup Needed(cfg, in, R)
    IN  IF next = R THEN R ELSE LeastNeeded(cfg, in, next)

\* C1: on success prune returns the nodes of the input graph whose names lie
\* in the least set holding every fetch's node and, for every node in it, the
\* source of each input that is not a fed (node, slot) pair; each node is
\* unchanged and the nodes keep the input's order.
C1_PruneIsLeastClosure ==
    (pc = "pruned" /\ status.code = "OK") =>
        out = SelectSeq(graph_def,
                        LAMBDA node : node.name \in LeastNeeded(config, graph_def, {}))

\* A pruned graph that keeps a node one of whose slots is fed, cuts an input
\* at that slot, leaves a node out, and ends with the fetched node.
C1_Witness ==
    /\ pc = "pruned" /\ status.code = "OK"
    /\ Len(out) = 2
    /\ out[2].name = config.fetch[1].id.node_name
    /\ \E k \in DOMAIN config.feed, i \in DOMAIN out :
        \E j \in DOMAIN out[i].input :
          /\ ParseTensorName(out[i].input[j]) =
                [first |-> config.feed[k].id.node_name,
                 second |-> config.feed[k].id.output_index]
          /\ \E i2 \in DOMAIN out : out[i2].name = config.feed[k].id.node_name

\* The names of the nodes of a graph.
NamesOf(in) == {in[i].name : i \in DOMAIN in}

\* C11: prune fails, with InvalidArgument naming the node, exactly when a
\* name the traversal needs (a fetch's node, or the source of an input of a
\* needed node that no feed cuts) is not a node of the graph; names met only
\* through fed inputs or only on nodes that are not needed do not matter.
C11_PruneFailsOnMissingNeeded ==
    pc = "pruned" =>
        LET missing == LeastNeeded(config, graph_def, {}) \ NamesOf(graph_def)
        IN  IF missing = {}
            THEN status.code = "OK"
            ELSE /\ status.code = "InvalidArgument"
                 /\ status.what \in missing
                 /\ out = <<>>

\* A failed prune on a missing node that no fetch names: a visited node has
\* one input on it that a feed cuts and one that no feed cuts.
C11_Witness ==
    /\ pc = "pruned" /\ status.code = "InvalidArgument"
    /\ \A k \in DOMAIN config.fetch : config.fetch[k].id.node_name # status.what
    /\ \E i \in DOMAIN graph_def :
        \E j \in DOMAIN graph_def[i].input, k \in DOMAIN graph_def[i].input :
          /\ ParseTensorName(graph_def[i].input[j]).first = status.what
          /\ ParseTensorName(graph_def[i].input[k]).first = status.what
          /\ status.what \notin UncutSources(config, [graph_def[i] EXCEPT !.input = <<@[j]>>])
          /\ status.what \in UncutSources(config, [graph_def[i] EXCEPT !.input = <<@[k]>>])

\* C10: pruning the pruned graph again with the same config succeeds and
\* returns the same node list.
C10_PruneIdempotent ==
    pc = "repruned" => (status.code = "OK" /\ out = graph_def)

\* A second prune of a graph the first prune made strictly smaller.
C10_Witness ==
    /\ pc = "repruned"
    /\ out # <<>>
    /\ Len(out) < Len(NodeNames)
    /\ config.feed # <<>>

(***************************************************************************)
(* AddPlaceholdersForFeeds.                                                *)
(***************************************************************************)
NotFound(what) == [code |-> "NotFound", what |-> what]

\* The op registry passed in: the output types of each registered op.
OpRegistry ==
    [Const |-> <<"DT_INT32">>,
     Identity |-> <<"DT_INT32">>,
     Unpack |-> <<"DT_FLOAT", "DT_FLOAT">>,
     VariableV2 |-> <<"DT_FLOAT_REF">>]

\* BaseType: the type a reference type refers to.
BaseType(t) == IF t = "DT_FLOAT_REF" THEN "DT_FLOAT" ELSE t

\* absl::StrCat("aot_feed_", output_index, "/", node_name)
PlaceholderName(id) ==
    <<"a", "o", "t", "_", "f", "e", "e", "d", "_">>
    \o IntToStr(id.output_index) \o <<"/">> \o id.node_name

\* The entry of a tensor kept as its first feed made it.
AddFeedIfNew(acc, feed) ==
    LET name_port == TensorIdToString(feed.id)
        info == [feed |-> feed,
                 placeholder_name |-> PlaceholderName(feed.id),
                 data_type |-> DT_INVALID]
    IN  IF name_port \in DOMAIN acc.placeholder_info THEN acc
        ELSE [placeholder_info |-> Put(acc.placeholder_info, name_port, info),
              feed_remapping |-> Put(acc.feed_remapping, name_port, info.placeholder_name)]

\* The body of the first loop: placeholder_info[name_port] and
\* (*feed_remapping)[name_port] are overwritten by each feed of that key.
AddFeed(acc, feed) ==
    LET name_port == TensorIdToString(feed.id)
        info == [feed |-> feed,
                 placeholder_name |-> PlaceholderName(feed.id),
                 data_type |-> DT_INVALID]
    IN  [placeholder_info |-> Put(acc.placeholder_info, name_port, info),
         feed_remapping |-> Put(acc.feed_remapping, name_port, info.placeholder_name)]

\* The first loop, from feed i on.
RECURSIVE GroupFeeds(_, _, _)
GroupFeeds(cfg, i, acc) ==
    IF i > Len(cfg.feed) THEN acc ELSE GroupFeeds(cfg, i + 1, AddFeed(acc, cfg.feed[i]))

\* The keys of a set of strings in ascending order.
RECURSIVE Ascending(_)
Ascending(S) ==
    IF S = {} THEN <<>>
    ELSE LET k == CHOOSE x \in S : \A y \in S : ~StrLess(y, x)
         IN  <<k>> \o Ascending(S \ {k})

\* The iteration order of a hash map: a matter of the run's hash seed.
KeyOrderHashed(S) ==
    LET seed == IF pc = "start" THEN hash_seed[1] ELSE hash_seed[2]
        asc == Ascending(S)
    IN  IF seed = 0 THEN asc ELSE [i \in DOMAIN asc |-> asc[Len(asc) + 1 - i]]

\* The iteration order of a std::map<string, ...>: ascending keys.
KeyOrder(S) == Ascending(S)

\* name_to_node: a later node of the same name overwrites an earlier one.
NameToNode(graph) ==
    [n \in {graph[i].name : i \in DOMAIN graph} |->
        graph[CHOOSE i \in DOMAIN graph :
                 /\ graph[i].name = n
                 /\ \A j \in DOMAIN graph : graph[j].name = n => j <= i]]

\* The node looked up only when the feed has no type of its own.
ResolveTypeLookupIfUntyped(info, name_to_node) ==
    LET feed_id == info.feed.id
    IN  IF info.feed.type # DT_INVALID
        THEN [status |-> OK, data_type |-> info.feed.type]
        ELSE IF feed_id.node_name \notin DOMAIN name_to_node
        THEN [status |-> NotFound(<<"Can't find feed node: ", TensorIdToString(feed_id)>>),
              data_type |-> DT_INVALID]
        ELSE LET existing == name_to_node[feed_id.node_name]
             IN  IF existing.op \notin DOMAIN OpRegistry
                 THEN [status |-> NotFound(<<"Op type not registered ", existing.op>>),
                       data_type |-> DT_INVALID]
                 ELSE IF feed_id.output_index < Len(OpRegistry[existing.op])
                 THEN [status |-> OK,
                       data_type |-> BaseType(OpRegistry[existing.op][feed_id.output_index + 1])]
                 ELSE [status |-> InvalidArgument(<<"Invalid output_index ", feed_id.output_index,
                                                    " for feed node ", feed_id.node_name>>),
                       data_type |-> DT_INVALID]

\* The body of the second loop for one entry: find the node, then take the
\* feed's type or build the node and read the type of its output.
ResolveType(info, name_to_node) ==
    LET feed_id == info.feed.id
    IN  IF feed_id.node_name \notin DOMAIN name_to_node
        THEN [status |-> NotFound(<<"Can't find feed node: ", TensorIdToString(feed_id)>>),
              data_type |-> DT_INVALID]
        ELSE IF info.feed.type # DT_INVALID
        THEN [status |-> OK, data_type |-> info.feed.type]
        ELSE LET existing == name_to_node[feed_id.node_name]
             IN  IF existing.op \notin DOMAIN OpRegistry
                 THEN [status |-> NotFound(<<"Op type not registered ", existing.op>>),
                       data_type |-> DT_INVALID]
                 ELSE IF feed_id.output_index < Len(OpRegistry[existing.op])
                 THEN [status |-> OK,
                       data_type |-> BaseType(OpRegistry[existing.op][feed_id.output_index + 1])]
                 ELSE [status |-> InvalidArgument(<<"Invalid output_index ", feed_id.output_index,
                                                    " for feed node ", feed_id.node_name>>),
                       data_type |-> DT_INVALID]

\* The second loop over the entries in key order: the first error returns.
RECURSIVE ResolveTypes(_, _, _)
ResolveTypes(keys, info, name_to_node) ==
    IF keys = <<>> THEN [status |-> OK, placeholder_info |-> info]
    ELSE LET r == ResolveType(info[Head(keys)], name_to_node)
         IN  IF r.status.code # "OK"
             THEN [status |-> r.status, placeholder_info |-> info]
             ELSE ResolveTypes(Tail(keys),
                               [info EXCEPT ![Head(keys)].data_type = r.data_type],
                               name_to_node)

\* The third loop: one PlaceholderV2 node per entry, in key order.
CreatePlaceholders(keys, info) ==
    [i \in DOMAIN keys |->
        [name |-> info[keys[i]].placeholder_name,
         op |-> "PlaceholderV2",
         input |-> <<>>,
         attr |-> [dtype |-> info[keys[i]].data_type,
                   shape |-> info[keys[i]].feed.shape]]]

\* An input rewritten whenever some entry is on its source node, whatever
\* the slot and whether or not it is a control input.
RewriteInputByNode(input, info) ==
    LET id == ParseTensorName(input)
        hits == {k \in DOMAIN info : info[k].feed.id.node_name = id.first}
    IN  IF hits # {} THEN info[CHOOSE k \in hits : TRUE].placeholder_name ELSE input

\* The body of the last loop: placeholder_info.find(id.ToString())
RewriteInput(input, info) ==
    LET id == ParseTensorName(input)
        key == TensorIdStr(id)
    IN  IF key \in DOMAIN info THEN info[key].placeholder_name ELSE input

\* The last loop, over every node of the graph and every input of it.
RewriteInputs(graph, info) ==
    [i \in DOMAIN graph |->
        [graph[i] EXCEPT !.input = [j \in DOMAIN @ |-> RewriteInput(@[j], info)]]]

\* The placeholders created and the inputs rewritten entry by entry as the
\* types are resolved: on an error the entries resolved so far have already
\* changed the graph.
AddPlaceholdersForFeedsEager(cfg, remapping, graph) ==
    LET grouped == GroupFeeds(cfg, 1, [placeholder_info |-> EmptyMap,
                                       feed_remapping |-> remapping])
        keys == KeyOrder(DOMAIN grouped.placeholder_info)
        resolved == ResolveTypes(keys, grouped.placeholder_info, NameToNode(graph))
        done == SelectSeq(keys, LAMBDA k : resolved.placeholder_info[k].data_type # DT_INVALID)
        info == [k \in {done[i] : i \in DOMAIN done} |-> resolved.placeholder_info[k]]
    IN  [status |-> resolved.status,
         graph_def |-> RewriteInputs(graph \o CreatePlaceholders(done, info), info),
         feed_remapping |-> grouped.feed_remapping]

\* The four loops: an error of the second returns before the third and the
\* last, the only ones that write to graph_def.
AddPlaceholdersForFeeds(cfg, remapping, graph) ==
    LET grouped == GroupFeeds(cfg, 1, [placeholder_info |-> EmptyMap,
                                       feed_remapping |-> remapping])
        keys == KeyOrder(DOMAIN grouped.placeholder_info)
        resolved == ResolveTypes(keys, grouped.placeholder_info, NameToNode(graph))
    IN  IF resolved.status.code # "OK"
        THEN [status |-> resolved.status,
              graph_def |-> graph,
              feed_remapping |-> grouped.feed_remapping]
        ELSE [status |-> OK,
              graph_def |->
                  RewriteInputs(graph \o CreatePlaceholders(keys, resolved.placeholder_info),
                                resolved.placeholder_info),
              feed_remapping |-> grouped.feed_remapping]

\* The graphs synthesis is run on: node A of some op and without inputs, and
\* node B with at most two inputs.
SynthOps == {"Const", "Unpack", "VariableV2", "NoSuchOp"}

SynthInputStrings ==
    {<<"A">>, <<"^", "A">>, <<"B">>, <<"^", "B">>}
    \cup {<<"A", ":">> \o IntToStr(k) : k \in Slots}

SynthGraphs ==
    {<<NodeDef(<<"A">>, op, <<>>), NodeDef(<<"B">>, "Identity", input)>> :
        op \in SynthOps, input \in SeqsUpTo2(SynthInputStrings)}

\* The (type, shape) pairs of a feed.
FeedTypeShapes == {<<DT_INVALID, <<>>>>, <<"DT_INT32", <<2>>>>, <<"DT_FLOAT", <<>>>>}

SynthFeeds ==
    {[id |-> id, type |-> ts[1], shape |-> ts[2]] :
        id \in TensorIds({<<"A">>, <<"B">>, MissingName}), ts \in FeedTypeShapes}

SynthConfigs == [feed : SeqsUpTo2(SynthFeeds), fetch : {<<>>}]

InitSynth ==
    /\ pc = "start"
    /\ config \in SynthConfigs
    /\ graph_def \in SynthGraphs
    /\ out = <<>>
    /\ status = OK
    /\ feed_remapping = EmptyMap
    /\ graph_before = <<>>
    /\ RerunIdle
    /\ SeedIdle
    /\ CacheIdle
    /\ GraphIdle
    /\ AssocIdle

\* synthesize(config, graph): graph_def is rewritten in place.
Synthesize ==
    /\ pc = "start"
    /\ LET r == AddPlaceholdersForFeeds(config, feed_remapping, graph_def)
       IN  /\ graph_def' = r.graph_def
           /\ feed_remapping' = r.feed_remapping
           /\ status' = r.status
    /\ graph_before' = graph_def
    /\ pc' = "synthesized"
    /\ UNCHANGED <<config, out, exceptPrune>>

NextSynth == Synthesize

SpecSynth == InitSynth /\ [][NextSynth]_vars

(***************************************************************************)
(* C4: the inputs synthesis rewrites.                                      *)
(***************************************************************************)
IsControlInput(input) == input # <<>> /\ input[1] = "^"

\* "<node>:<slot>", a bare "<node>" being slot 0.
CanonicalRef(input) ==
    IF \E p \in DOMAIN input : input[p] = ":" THEN input ELSE input \o <<":", "0">>

\* The input is a data input on a tensor some feed of the config is on.
IsFedInput(input) ==
    /\ ~IsControlInput(input)
    /\ \E f \in DOMAIN config.feed :
          TensorIdToString(config.feed[f].id) = CanonicalRef(input)

\* C4: after a successful synthesize every node of the graph is where it was,
\* and each of its inputs that is a data input on a fed tensor ("<node>" being
\* "<node>:0") names the placeholder node appended for that tensor; every
\* other input, a control input on a fed node included, is as it was.
C4_FedDataInputsRepointed ==
    (pc = "synthesized" /\ status.code = "OK") =>
        /\ Len(graph_def) >= Len(graph_before)
        /\ \A i \in DOMAIN graph_before :
            /\ graph_def[i].name = graph_before[i].name
            /\ graph_def[i].op = graph_before[i].op
            /\ DOMAIN graph_def[i].input = DOMAIN graph_before[i].input
            /\ \A j \in DOMAIN graph_before[i].input :
                LET was == graph_before[i].input[j]
                    now == graph_def[i].input[j]
                IN  IF IsFedInput(was)
                    THEN /\ now = feed_remapping[CanonicalRef(was)]
                         /\ \E p \in (Len(graph_before) + 1)..Len(graph_def) :
                               /\ graph_def[p].op = "PlaceholderV2"
                               /\ graph_def[p].name = now
                    ELSE now = was

\* A successful synthesize on a node with a bare data input on a fed tensor,
\* which is rewritten, and a control input on the same node, which is not.
C4_Witness ==
    /\ pc = "synthesized" /\ status.code = "OK"
    /\ \E i \in DOMAIN graph_before :
        \E j \in DOMAIN graph_before[i].input, k \in DOMAIN graph_before[i].input :
          /\ IsFedInput(graph_before[i].input[j])
          /\ graph_before[i].input[j] # CanonicalRef(graph_before[i].input[j])
          /\ graph_def[i].input[j] # graph_before[i].input[j]
          /\ IsControlInput(graph_before[i].input[k])
          /\ Tail(graph_before[i].input[k]) \o <<":", "0">>
                = CanonicalRef(graph_before[i].input[j])
          /\ graph_def[i].input[k] = graph_before[i].input[k]

(***************************************************************************)
(* ValidateConfig.                                                         *)
(***************************************************************************)
ValidateTensorId(id) ==
    IF id.node_name = <<>>
    THEN InvalidArgument(<<"TensorId node_name must be non-empty">>)
    ELSE IF id.output_index < 0
    THEN InvalidArgument(<<"TensorId output_index must be positive">>)
    ELSE OK

\* TensorShape::IsValidShape: no dimension of a TensorShapeProto is negative.
IsValidShape(shape) ==
    IF \E d \in DOMAIN shape : shape[d] < 0
    THEN InvalidArgument(<<"Shape has a negative dimension">>)
    ELSE OK

\* names->insert(name).second is false when the name is already in the set.
CheckNameDuplicates(kind, name, names) ==
    IF name # <<>> /\ name \in names
    THEN [status |-> InvalidArgument(<<"duplicate ", kind, " name: ", name>>), names |-> names]
    ELSE [status |-> OK, names |-> IF name # <<>> THEN names \cup {name} ELSE names]

DataSuffix == <<"_", "d", "a", "t", "a">>

\* The loop over the set in its (ascending) order: the first name whose
\* name + "_data" is in the set too.
CheckFeedFetchNameConflicts(kind, names) ==
    LET hits == SelectSeq(KeyOrder(names), LAMBDA name : (name \o DataSuffix) \in names)
    IN  IF hits # <<>>
        THEN InvalidArgument(<<"conflicting ", kind, " name: ", hits[1], " and ",
                               hits[1] \o DataSuffix>>)
        ELSE OK

\* The feed loop from feed i on.
RECURSIVE ValidateFeeds(_, _, _)
ValidateFeeds(cfg, i, names) ==
    IF i > Len(cfg.feed) THEN [status |-> OK, names |-> names]
    ELSE LET feed == cfg.feed[i]
             dup == CheckNameDuplicates("feed", feed.name, names)
         IN  IF ValidateTensorId(feed.id).code # "OK"
             THEN [status |-> ValidateTensorId(feed.id), names |-> names]
             ELSE IF IsValidShape(feed.shape).code # "OK"
             THEN [status |-> IsValidShape(feed.shape), names |-> names]
             ELSE IF dup.status.code # "OK" THEN dup
             ELSE ValidateFeeds(cfg, i + 1, dup.names)

\* The fetch loop from fetch i on.
RECURSIVE ValidateFetches(_, _, _)
ValidateFetches(cfg, i, names) ==
    IF i > Len(cfg.fetch) THEN [status |-> OK, names |-> names]
    ELSE LET fetch == cfg.fetch[i]
             dup == CheckNameDuplicates("fetch", fetch.name, names)
         IN  IF ValidateTensorId(fetch.id).code # "OK"
             THEN [status |-> ValidateTensorId(fetch.id), names |-> names]
             ELSE IF dup.status.code # "OK" THEN dup
             ELSE ValidateFetches(cfg, i + 1, dup.names)

\* The set of feed names carried over into the fetch checks.
KeepNames(names) == names

\* names.clear()
ClearNames(names) == {}

ValidateConfig(cfg) ==
    LET feeds == ValidateFeeds(cfg, 1, {})
        fetches == ValidateFetches(cfg, 1, ClearNames(feeds.names))
    IN  IF feeds.status.code # "OK" THEN feeds.status
        ELSE IF CheckFeedFetchNameConflicts("feed", feeds.names).code # "OK"
        THEN CheckFeedFetchNameConflicts("feed", feeds.names)
        ELSE IF fetches.status.code # "OK" THEN fetches.status
        ELSE IF CheckFeedFetchNameConflicts("fetch", fetches.names).code # "OK"
        THEN CheckFeedFetchNameConflicts("fetch", fetches.names)
        ELSE IF cfg.fetch = <<>>
        THEN InvalidArgument(<<"fetches must be specified">>)
        ELSE OK

\* The configs validation is run on.
ValidateIds ==
    {[node_name |-> <<"A">>, output_index |-> 0],
     [node_name |-> <<>>, output_index |-> 0],
     [node_name |-> <<"A">>, output_index |-> -1]}

ValidateShapes == {<<2>>, <<-1>>}

DisplayNames == {<<>>, <<"x">>, <<"x">> \o DataSuffix, DataSuffix}

ValidateFeedSet ==
    [id : ValidateIds, type : {DT_INVALID}, shape : ValidateShapes, name : DisplayNames]

ValidateFetchSet == [id : ValidateIds, name : DisplayNames]

ValidateConfigs == [feed : SeqsUpTo2(ValidateFeedSet), fetch : SeqsUpTo2(ValidateFetchSet)]

InitValidate ==
    /\ pc = "start"
    /\ config \in ValidateConfigs
    /\ graph_def = <<>>
    /\ out = <<>>
    /\ status = OK
    /\ feed_remapping = EmptyMap
    /\ graph_before = <<>>
    /\ RerunIdle
    /\ SeedIdle
    /\ CacheIdle
    /\ GraphIdle
    /\ AssocIdle

\* validate(config)
Validate ==
    /\ pc = "start"
    /\ status' = ValidateConfig(config)
    /\ pc' = "validated"
    /\ UNCHANGED <<config, graph_def, out, feed_remapping, graph_before, exceptPrune>>

NextValidate == Validate

SpecValidate == InitValidate /\ [][NextValidate]_vars

(***************************************************************************)
(* C12: what validate accepts.                                             *)
(***************************************************************************)
ValidRef(id) == id.node_name # <<>> /\ id.output_index >= 0

\* The non-empty display names of the entries are pairwise distinct and no
\* two of them are X and X_data.
DisplayNamesAgree(entries) ==
    /\ \A i \in DOMAIN entries, j \in DOMAIN entries :
          (i # j /\ entries[i].name # <<>>) => entries[i].name # entries[j].name
    /\ \A i \in DOMAIN entries, j \in DOMAIN entries :
          entries[i].name # <<>> =>
              entries[j].name # entries[i].name \o <<"_", "d", "a", "t", "a">>

\* C12: validate returns OK exactly when every feed and fetch reference has a
\* non-empty node name and a slot >= 0, every feed shape is valid, the feed
\* display names agree among themselves, the fetch display names agree among
\* themselves, and there is a fetch; it returns InvalidArgument otherwise.
C12_ValidateAcceptsExactly ==
    pc = "validated" =>
        IF /\ \A i \in DOMAIN config.feed :
                /\ ValidRef(config.feed[i].id)
                /\ \A d \in DOMAIN config.feed[i].shape : config.feed[i].shape[d] >= 0
           /\ \A i \in DOMAIN config.fetch : ValidRef(config.fetch[i].id)
           /\ DisplayNamesAgree(config.feed)
           /\ DisplayNamesAgree(config.fetch)
           /\ config.fetch # <<>>
        THEN status.code = "OK"
        ELSE status.code = "InvalidArgument"

\* An accepted config in which a feed and a fetch have the same display name
\* and another feed and fetch are X and X_data across the two namespaces.
C12_Witness ==
    /\ pc = "validated" /\ status.code = "OK"
    /\ \E i \in DOMAIN config.feed, j \in DOMAIN config.fetch :
          config.feed[i].name # <<>> /\ config.feed[i].name = config.fetch[j].name
    /\ \E i \in DOMAIN config.feed, j \in DOMAIN config.fetch :
          /\ config.feed[i].name # <<>>
          /\ config.fetch[j].name = config.feed[i].name \o <<"_", "d", "a", "t", "a">>

(***************************************************************************)
(* RewriteAssociatedFunction, kSymbolicGradient.                           *)
(***************************************************************************)
\* FunctionLibraryDefinition::kGradientOp
kGradientOp == "SymbolicGradient"

\* FunctionLibraryDefinition::kFuncAttr
kFuncAttr == "f"

\* An AttrValue holding a NameAttrList, and one holding a type.
FuncAttrValue(name, attr) == [kind |-> "func", name |-> name, attr |-> attr]

TypeAttrValue(t) == [kind |-> "type", type |-> t]

\* AttrValue::has_func()
HasFunc(value) == value.kind = "func"

\* GetNodeAttr(attrs, attr_name, NameAttrList*)
GetNodeAttr(attrs, attr_name) ==
    IF attr_name \notin DOMAIN attrs
    THEN [status |-> NotFound(<<"No attr named ", attr_name>>)]
    ELSE IF ~HasFunc(attrs[attr_name])
    THEN [status |-> InvalidArgument(<<"AttrValue is not a func: ", attr_name>>)]
    ELSE [status |-> OK, value |-> attrs[attr_name]]

\* FunctionLibraryDefinition::FindGradient: "" when there is none.
FindGradient(func_grad_, func) ==
    IF func \in DOMAIN func_grad_ THEN func_grad_[func] ELSE ""

\* FunctionLibraryDefinition::AddGradientDef
AddGradientDef(func_grad_, function_name, gradient_func) ==
    IF FindGradient(func_grad_, function_name) \notin {"", gradient_func}
    THEN [status |-> InvalidArgument(<<"Cannot assign gradient function">>),
          func_grad_ |-> func_grad_]
    ELSE [status |-> OK, func_grad_ |-> Put(func_grad_, function_name, gradient_func)]

\* FunctionLibraryDefinition::ReplaceGradient: remove the entry, then add.
ReplaceGradient(func_grad_, function_name, gradient_func) ==
    IF function_name \notin DOMAIN func_grad_
    THEN [status |-> InvalidArgument(<<"Tried to remove non-existent gradient">>),
          func_grad_ |-> func_grad_]
    ELSE AddGradientDef([f \in DOMAIN func_grad_ \ {function_name} |-> func_grad_[f]],
                        function_name, gradient_func)

\* The library written whatever the gradient already registered.
UpdateGradientAlways(func_grad_, function_name, gradient_func) ==
    IF FindGradient(func_grad_, function_name) = ""
    THEN [call |-> <<"AddGradientDef">>]
         @@ AddGradientDef(func_grad_, function_name, gradient_func)
    ELSE [call |-> <<"ReplaceGradient">>]
         @@ ReplaceGradient(func_grad_, function_name, gradient_func)

\* original_grad_func = fld->FindGradient(func.name()), then add, replace or
\* leave; call is the library call made, if any.
UpdateGradient(func_grad_, function_name, gradient_func) ==
    LET original_grad_func == FindGradient(func_grad_, function_name)
    IN  IF original_grad_func = ""
        THEN [call |-> <<"AddGradientDef">>]
             @@ AddGradientDef(func_grad_, function_name, gradient_func)
        ELSE IF original_grad_func # gradient_func
        THEN [call |-> <<"ReplaceGradient">>]
             @@ ReplaceGradient(func_grad_, function_name, gradient_func)
        ELSE [call |-> <<>>, status |-> OK, func_grad_ |-> func_grad_]

\* The functions and gradient functions of the library.
FuncNames2 == {"F", "H"}

GradNames == {"G1", "G2"}

GradientMaps == UNION {[D -> GradNames] : D \in SUBSET FuncNames2}

GradientAttrs ==
    {EmptyMap,
     [f |-> FuncAttrValue("F", EmptyMap)],
     [f |-> FuncAttrValue("H", EmptyMap)],
     [f |-> TypeAttrValue("DT_FLOAT")],
     [f |-> FuncAttrValue("F", EmptyMap), T |-> TypeAttrValue("DT_FLOAT")]}

GradientEdges ==
    {EmptyBag,
     AddEdge(EmptyBag, Edge(OldNode, 0, OtherNode, 0)),
     AddEdge(EmptyBag, Edge(OtherNode, kControlSlot, OldNode, kControlSlot))}

InitGradient ==
    /\ g_nodes = {OldNode, OtherNode}
    /\ g_edges \in GradientEdges
    /\ gpc = "start"
    /\ g_status = OK
    /\ out_edge_info = <<>>
    /\ work = <<>>
    /\ pre_nodes = g_nodes
    /\ pre_edges = g_edges
    /\ node_op = kGradientOp
    /\ node_attrs \in GradientAttrs
    /\ fld \in [functions : {FuncNames2 \cup GradNames}, func_grad_ : GradientMaps]
    /\ rewritten_function_name \in GradNames
    /\ results = <<>>
    /\ libLog = <<>>
    /\ pre_fld = fld
    /\ pre_attrs = node_attrs
    /\ PruneIdle /\ SeedIdle /\ CacheIdle /\ ShardIdle

\* case AssociatedFunctionInfo::kSymbolicGradient, ending at position next.
RewriteGradientTo(next) ==
    LET func == GetNodeAttr(node_attrs, kFuncAttr)
    IN  /\ IF func.status.code # "OK"
           THEN /\ g_status' = func.status
                /\ UNCHANGED <<fld, libLog>>
           ELSE LET r == UpdateGradient(fld.func_grad_, func.value.name,
                                        rewritten_function_name)
                IN  /\ g_status' = r.status
                    /\ fld' = [fld EXCEPT !.func_grad_ = r.func_grad_]
                    /\ libLog' = libLog \o r.call
        /\ gpc' = next
        /\ UNCHANGED <<g_nodes, g_edges, out_edge_info, work, pre_nodes, pre_edges,
                       node_op, node_attrs, rewritten_function_name, results,
                       pre_fld, pre_attrs, shardVars, exceptGraphAssoc>>

RewriteGradient == gpc = "start" /\ RewriteGradientTo("done")

\* The same rewrite applied once more.
RewriteGradientAgain ==
    gpc = "done" /\ g_status.code = "OK" /\ RewriteGradientTo("again")

NextGradient == RewriteGradient \/ RewriteGradientAgain

SpecGradient == InitGradient /\ [][NextGradient]_vars

\* C13: a SymbolicGradient rewrite of a node whose function attribute names f
\* succeeds and leaves the library mapping f's gradient to the new name and
\* every other gradient as it was; the library is written once, by an add
\* when f had no gradient and by a replace when it had another, and not at
\* all when it already had the new name, nor by a second application; the
\* graph's nodes, edges and the node's attributes are as before.
C13_GradientRewrite ==
    (gpc \in {"done", "again"}
        /\ kFuncAttr \in DOMAIN pre_attrs /\ pre_attrs[kFuncAttr].kind = "func") =>
        LET f == pre_attrs[kFuncAttr].name
            was == pre_fld.func_grad_
        IN  /\ g_status.code = "OK"
            /\ DOMAIN fld.func_grad_ = DOMAIN was \cup {f}
            /\ fld.func_grad_[f] = rewritten_function_name
            /\ \A h \in DOMAIN was \ {f} : fld.func_grad_[h] = was[h]
            /\ fld.functions = pre_fld.functions
            /\ libLog = IF f \notin DOMAIN was THEN <<"AddGradientDef">>
                        ELSE IF was[f] # rewritten_function_name THEN <<"ReplaceGradient">>
                        ELSE <<>>
            /\ g_nodes = pre_nodes /\ g_edges = pre_edges /\ node_attrs = pre_attrs

\* The rewrite applied twice where f's gradient was another name, the graph
\* having an edge and the library another gradient.
C13_Witness ==
    /\ gpc = "again" /\ g_status.code = "OK"
    /\ libLog = <<"ReplaceGradient">>
    /\ g_edges # EmptyBag
    /\ \E h \in DOMAIN pre_fld.func_grad_ : h # pre_attrs[kFuncAttr].name

(***************************************************************************)
(* GetAssociatedFunctions.                                                 *)
(***************************************************************************)
\* AssociatedFunctionInfo::FunctionCall
FunctionCall(func_name, attrs) ==
    [type |-> "kFunctionCallNode", func_name |-> func_name, attrs |-> attrs]

\* AssociatedFunctionInfo::SymbolicGradient
SymbolicGradient(func_name, attrs) ==
    [type |-> "kSymbolicGradient", func_name |-> func_name, attrs |-> attrs]

\* AssociatedFunctionInfo::FunctionAttr
FunctionAttr(func_name, attrs, attr_name) ==
    [type |-> "kFunctionAttr", func_name |-> func_name, attrs |-> attrs,
     attr_name |-> attr_name]

\* The orders in which an iteration over the attribute map can meet its keys.
AttrOrders(S) ==
    {o \in [1..Cardinality(S) -> S] : \A i, j \in DOMAIN o : i # j => o[i] # o[j]}

\* The loop over node.attrs() in the order given.
RECURSIVE CollectFunctionAttrs(_, _)
CollectFunctionAttrs(attrs, order) ==
    IF order = <<>> THEN <<>>
    ELSE (IF HasFunc(attrs[Head(order)])
          THEN <<FunctionAttr(attrs[Head(order)].name, attrs[Head(order)].attr, Head(order))>>
          ELSE <<>>)
         \o CollectFunctionAttrs(attrs, Tail(order))

\* The gradient op looked for before the library is asked.
GetAssociatedFunctionsGradientFirst(op, attrs, functions, order) ==
    IF op = kGradientOp THEN <<SymbolicGradient(op, attrs)>>
    ELSE IF op \in functions THEN <<FunctionCall(op, attrs)>>
    ELSE CollectFunctionAttrs(attrs, order)

GetAssociatedFunctions(op, attrs, functions, order) ==
    IF op \in functions THEN <<FunctionCall(op, attrs)>>
    ELSE IF op = kGradientOp THEN <<SymbolicGradient(op, attrs)>>
    ELSE CollectFunctionAttrs(attrs, order)

\* The nodes and libraries resolve is run on.
ResolveOps == {"F", kGradientOp, "While"}

ResolveLibraries == {{}, {"F"}, {"F", kGradientOp}}

ResolveAttrs ==
    {t @@ b @@ c :
        t \in {EmptyMap, [T |-> TypeAttrValue("DT_FLOAT")]},
        b \in {EmptyMap, [body |-> FuncAttrValue("F", EmptyMap)],
               [body |-> FuncAttrValue("H", [T |-> TypeAttrValue("DT_FLOAT")])]},
        c \in {EmptyMap, [cond |-> FuncAttrValue("H", EmptyMap)]}}

InitResolve ==
    /\ g_nodes = {OldNode}
    /\ g_edges = EmptyBag
    /\ gpc = "start"
    /\ g_status = OK
    /\ out_edge_info = <<>>
    /\ work = <<>>
    /\ pre_nodes = g_nodes
    /\ pre_edges = g_edges
    /\ node_op \in ResolveOps
    /\ node_attrs \in ResolveAttrs
    /\ fld \in [functions : ResolveLibraries, func_grad_ : {EmptyMap}]
    /\ rewritten_function_name = ""
    /\ results = <<>>
    /\ libLog = <<>>
    /\ pre_fld = fld
    /\ pre_attrs = node_attrs
    /\ PruneIdle /\ SeedIdle /\ CacheIdle /\ ShardIdle

\* resolve(node, library)
Resolve ==
    /\ gpc = "start"
    /\ \E order \in AttrOrders(DOMAIN node_attrs) :
          results' = GetAssociatedFunctions(node_op, node_attrs, fld.functions, order)
    /\ gpc' = "resolved"
    /\ UNCHANGED <<g_nodes, g_edges, g_status, out_edge_info, work, pre_nodes, pre_edges,
                   node_op, node_attrs, fld, rewritten_function_name, libLog,
                   pre_fld, pre_attrs, shardVars, exceptGraphAssoc>>

NextResolve == Resolve

SpecResolve == InitResolve /\ [][NextResolve]_vars

\* The attributes of the node that hold a function.
FunctionValued(attrs) == {a \in DOMAIN attrs : attrs[a].kind = "func"}

\* C14: resolve returns exactly one FunctionCallNode entry, with the node's
\* type and attributes, when the node's type is a function of the library,
\* whatever else holds; otherwise exactly one SymbolicGradient entry when the
\* type is the gradient op; otherwise exactly one FunctionAttr entry for each
\* function-valued attribute, with the function's name and the attribute's
\* name, and nothing else.
C14_ResolveShapes ==
    gpc = "resolved" =>
        IF node_op \in fld.functions
        THEN results = <<[type |-> "kFunctionCallNode", func_name |-> node_op,
                          attrs |-> node_attrs]>>
        ELSE IF node_op = "SymbolicGradient"
        THEN Len(results) = 1 /\ results[1].type = "kSymbolicGradient"
        ELSE /\ Len(results) = Cardinality(FunctionValued(node_attrs))
             /\ \A i \in DOMAIN results :
                   /\ results[i].type = "kFunctionAttr"
                   /\ results[i].attr_name \in FunctionValued(node_attrs)
                   /\ results[i].func_name = node_attrs[results[i].attr_name].name
             /\ \A a \in FunctionValued(node_attrs) :
                   \E i \in DOMAIN results : results[i].attr_name = a

\* A node whose type is the gradient op and a function of the library, with a
\* function-valued attribute: one FunctionCallNode entry.
C14_Witness ==
    /\ gpc = "resolved"
    /\ node_op = "SymbolicGradient" /\ node_op \in fld.functions
    /\ FunctionValued(node_attrs) # {}
    /\ Len(results) = 1 /\ results[1].type = "kFunctionCallNode"

(***************************************************************************)
(* SetNodeShardingFromNeighbors.                                           *)
(***************************************************************************)
InternalCheck(what) == [code |-> "Internal", what |-> what]

\* Device names: empty, one that ParseFullName rejects, or type and id.
NoDevice == [kind |-> "empty"]

MalformedDevice == [kind |-> "malformed"]

Device(type, id) == [kind |-> "parsed", type |-> type, id |-> id]

\* xla::OpSharding, or none.
NoSharding == [type |-> "none"]

Maximal(core) == [type |-> "MAXIMAL", tile_assignment_devices |-> <<core>>]

Replicated == [type |-> "REPLICATED", tile_assignment_devices |-> <<>>]

\* ParseShardingFromDevice(node, num_cores_per_replica = max int32): the
\* assigned device, else the requested one; no device, no sharding; an
\* explicit sharding wins over the device's core.
ParseShardingFromDevice(node) ==
    LET device_name == IF node.assigned_device_name # NoDevice
                       THEN node.assigned_device_name ELSE node.requested_device
    IN  IF device_name = NoDevice THEN [status |-> OK, sharding |-> NoSharding]
        ELSE IF device_name = MalformedDevice
        THEN [status |-> InvalidArgument(<<"Malformed assigned device">>),
              sharding |-> NoSharding]
        ELSE IF node.explicit_sharding # NoSharding
        THEN [status |-> OK, sharding |-> node.explicit_sharding]
        ELSE IF device_name.type # "TPU_REPLICATED_CORE"
        THEN [status |-> OK, sharding |-> NoSharding]
        ELSE [status |-> OK, sharding |-> Maximal(device_name.id)]

\* The comparison turned round: the larger core is taken.
TakesOverLargest(core, core_annotation) == core = -1 \/ core < core_annotation

\* core == -1 || core > core_annotation
TakesOver(core, core_annotation) == core = -1 \/ core > core_annotation

\* The loop over the edges in the order given; matching_node is "nullptr"
\* until a neighbor has matched.
RECURSIVE ScanNeighbors(_, _, _, _, _)
ScanNeighbors(order, direction, devs, core, matching_node) ==
    IF order = <<>> THEN [status |-> OK, matching_node |-> matching_node]
    ELSE LET edge == Head(order)
             possible_match == IF direction THEN edge.dst ELSE edge.src
             parsed == ParseShardingFromDevice(devs[possible_match])
         IN  IF IsControlEdge(edge)
             THEN ScanNeighbors(Tail(order), direction, devs, core, matching_node)
             ELSE IF parsed.status.code # "OK"
             THEN [status |-> parsed.status, matching_node |-> "nullptr"]
             ELSE IF parsed.sharding = NoSharding
             THEN ScanNeighbors(Tail(order), direction, devs, core, matching_node)
             ELSE IF parsed.sharding.type # "MAXIMAL"
             THEN [status |-> InternalCheck(<<"sharding.value().type() == MAXIMAL">>),
                   matching_node |-> "nullptr"]
             ELSE IF TakesOver(core, parsed.sharding.tile_assignment_devices[1])
             THEN ScanNeighbors(Tail(order), direction, devs,
                                parsed.sharding.tile_assignment_devices[1], possible_match)
             ELSE ScanNeighbors(Tail(order), direction, devs, core, matching_node)

\* The nodes and edges propagation is run on: n and two neighbors, each
\* joined to n by no edge, a data edge or a control edge, either way round.
ThirdNode == "k"

NeighborEdges(x) ==
    {EmptyBag,
     AddEdge(EmptyBag, Edge(OldNode, 0, x, 0)),
     AddEdge(EmptyBag, Edge(x, 0, OldNode, IF x = OtherNode THEN 0 ELSE 1)),
     AddEdge(EmptyBag, Edge(OldNode, kControlSlot, x, kControlSlot)),
     AddEdge(EmptyBag, Edge(x, kControlSlot, OldNode, kControlSlot))}

NeighborDevices ==
    [assigned_device_name :
        {NoDevice, MalformedDevice, Device("CPU", 0),
         Device("TPU_REPLICATED_CORE", 0), Device("TPU_REPLICATED_CORE", 1)},
     requested_device : {NoDevice, Device("TPU_REPLICATED_CORE", 0), Device("TPU_REPLICATED_CORE", 2)},
     explicit_sharding : {NoSharding, Maximal(0), Replicated}]

OwnDevices ==
    [assigned_device_name |-> Device("CPU", 0), requested_device |-> NoDevice,
     explicit_sharding |-> NoSharding]

InitShard ==
    /\ g_nodes = {OldNode, OtherNode, ThirdNode}
    /\ \E a \in NeighborEdges(OtherNode), b \in NeighborEdges(ThirdNode) : g_edges = a @@ b
    /\ gpc = "start"
    /\ g_status = OK
    /\ out_edge_info = <<>>
    /\ work = <<>>
    /\ pre_nodes = g_nodes
    /\ pre_edges = g_edges
    /\ node_op = ""
    /\ node_attrs = EmptyMap
    /\ fld = EmptyLibrary
    /\ rewritten_function_name = ""
    /\ results = <<>>
    /\ libLog = <<>>
    /\ pre_fld = EmptyLibrary
    /\ pre_attrs = EmptyMap
    /\ \E m \in NeighborDevices, k \in NeighborDevices :
          devices = (OldNode :> OwnDevices) @@ (OtherNode :> m) @@ (ThirdNode :> k)
    /\ out_edges \in BOOLEAN
    /\ pre_devices = devices
    /\ PruneIdle /\ SeedIdle /\ CacheIdle

\* propagate(node, direction)
Propagate ==
    /\ gpc = "start"
    /\ \E order \in EdgeOrders(IF out_edges THEN OutEdges(g_edges, OldNode)
                               ELSE InEdges(g_edges, OldNode)) :
          LET r == ScanNeighbors(order, out_edges, devices, -1, "nullptr")
          IN  /\ g_status' = r.status
              /\ devices' =
                    IF r.status.code = "OK" /\ r.matching_node # "nullptr"
                    THEN [devices EXCEPT
                            ![OldNode].assigned_device_name =
                                devices[r.matching_node].assigned_device_name,
                            ![OldNode].requested_device =
                                devices[r.matching_node].requested_device]
                    ELSE devices
    /\ gpc' = "propagated"
    /\ UNCHANGED <<g_nodes, g_edges, out_edge_info, work, pre_nodes, pre_edges,
                   node_op, node_attrs, fld, rewritten_function_name, results, libLog,
                   pre_fld, pre_attrs, out_edges, pre_devices, exceptGraphAssoc>>

NextShard == Propagate

SpecShard == InitShard /\ [][NextShard]_vars

(***************************************************************************)
(* C15: what propagation gives the node.                                   *)
(***************************************************************************)
\* The neighbors of n across the non-control edges of the chosen direction.
ShardNeighbors ==
    {x \in pre_nodes :
        \E e \in DOMAIN pre_edges :
            /\ e.src_output # -1
            /\ IF out_edges THEN e.src = OldNode /\ e.dst = x
               ELSE e.dst = OldNode /\ e.src = x}

\* What the query of a neighbor's sharding annotation returns.
Annotation(x) == ParseShardingFromDevice(pre_devices[x])

QueryFails == \E x \in ShardNeighbors : Annotation(x).status.code # "OK"

Annotated ==
    {x \in ShardNeighbors :
        Annotation(x).status.code = "OK" /\ Annotation(x).sharding.type # "none"}

AllMaximal == \A x \in Annotated : Annotation(x).sharding.type = "MAXIMAL"

\* n has the assigned and requested device of an annotated neighbor none of
\* the others has a smaller core than.
TakesFromSmallestCore ==
    \E x \in Annotated :
        /\ \A y \in Annotated :
              Annotation(x).sharding.tile_assignment_devices[1]
                 <= Annotation(y).sharding.tile_assignment_devices[1]
        /\ devices[OldNode].assigned_device_name = pre_devices[x].assigned_device_name
        /\ devices[OldNode].requested_device = pre_devices[x].requested_device

\* C15 as stated: when the annotated neighbors across non-control edges in
\* the chosen direction are all maximal and there is one, n gets the devices
\* of the one with the smallest core; when none is annotated, n's devices are
\* unchanged.
C15_PropagateAsStated ==
    gpc = "propagated" =>
        /\ (Annotated # {} /\ AllMaximal) => TakesFromSmallestCore
        /\ Annotated = {} => devices[OldNode] = pre_devices[OldNode]

\* C15, amended: the same, provided the query of no such neighbor fails; when
\* one fails, or an annotation is not maximal, propagate returns an error and
\* n's devices are unchanged; no other node's devices change.
C15_PropagateUnlessQueryFails ==
    gpc = "propagated" =>
        /\ (~QueryFails /\ Annotated # {} /\ AllMaximal) =>
              g_status.code = "OK" /\ TakesFromSmallestCore
        /\ (~QueryFails /\ Annotated = {}) =>
              g_status.code = "OK" /\ devices[OldNode] = pre_devices[OldNode]
        /\ (QueryFails \/ ~AllMaximal) =>
              g_status.code # "OK" /\ devices[OldNode] = pre_devices[OldNode]
        /\ \A x \in pre_nodes \ {OldNode} : devices[x] = pre_devices[x]
        /\ devices[OldNode].explicit_sharding = pre_devices[OldNode].explicit_sharding

\* Two annotated neighbors on different cores, and n has taken new devices.
C15_Witness ==
    /\ gpc = "propagated" /\ g_status.code = "OK"
    /\ Annotated = {OtherNode, ThirdNode}
    /\ Annotation(OtherNode).sharding # Annotation(ThirdNode).sharding
    /\ devices[OldNode] # pre_devices[OldNode]

(***************************************************************************)
(* AddPlaceholdersForFeeds run twice on the same inputs.                   *)
(***************************************************************************)
\* The hash seeds of two runs: the same, or different.
HashSeeds == {<<0, 0>>, <<0, 1>>}

InitSynthTwice ==
    /\ pc = "start"
    /\ config \in SynthConfigs
    /\ graph_def \in SynthGraphs
    /\ out = <<>>
    /\ status = OK
    /\ feed_remapping = EmptyMap
    /\ graph_before = <<>>
    /\ rerun = NoRun
    /\ hash_seed \in HashSeeds
    /\ SeedIdle
    /\ CacheIdle
    /\ GraphIdle
    /\ AssocIdle

\* synthesize(config, graph) once more, on the graph as it was before the
\* first run and with an empty remapping.
SynthesizeAgain ==
    /\ pc = "synthesized"
    /\ rerun' = AddPlaceholdersForFeeds(config, EmptyMap, graph_before)
    /\ pc' = "synthesized_twice"
    /\ UNCHANGED <<config, graph_def, out, status, feed_remapping, graph_before,
                   hash_seed, exceptPruneRerun>>

NextSynthTwice == Synthesize \/ SynthesizeAgain

SpecSynthTwice == InitSynthTwice /\ [][NextSynthTwice]_vars

FeedGroups == {TensorIdToString(config.feed[i].id) : i \in DOMAIN config.feed}

\* The last feed of the config on the tensor.
LastFeed(k) ==
    config.feed[CHOOSE i \in DOMAIN config.feed :
                   /\ TensorIdToString(config.feed[i].id) = k
                   /\ \A j \in DOMAIN config.feed :
                         TensorIdToString(config.feed[j].id) = k => j <= i]

Untyped(k) == LastFeed(k).type = "DT_INVALID"

\* The node of the graph, as it was before the call, that the group is on.
FedNodes(k) ==
    {i \in DOMAIN graph_before : graph_before[i].name = LastFeed(k).id.node_name}

NodeAbsent(k) == FedNodes(k) = {}

\* The node cannot be built: its op is not registered.
InferenceFails(k) ==
    \E i \in FedNodes(k) : graph_before[i].op \notin DOMAIN OpRegistry

SlotOutOfRange(k) ==
    \E i \in FedNodes(k) :
        /\ graph_before[i].op \in DOMAIN OpRegistry
        /\ LastFeed(k).id.output_index >= Len(OpRegistry[graph_before[i].op])

\* The status is the failure of group k.
FailsFor(k) ==
    \/ /\ NodeAbsent(k)
       /\ status = [code |-> "NotFound",
                    what |-> <<"Can't find feed node: ", k>>]
    \/ /\ Untyped(k) /\ SlotOutOfRange(k)
       /\ status.code = "InvalidArgument"
    \/ /\ Untyped(k) /\ InferenceFails(k)
       /\ status.code \notin {"OK", "InvalidArgument"}

\* On success the placeholder of every group with a type of its own has that
\* type as it is.
ExplicitTypesTaken ==
    status.code = "OK" =>
        \A k \in FeedGroups :
            ~Untyped(k) =>
                \E p \in (Len(graph_before) + 1)..Len(graph_def) :
                    /\ graph_def[p].name = feed_remapping[k]
                    /\ graph_def[p].attr.dtype = LastFeed(k).type

\* C18 as stated: only the groups without a type of their own are looked up
\* and inferred: synthesize fails exactly when the node of such a group is
\* absent (NotFound), its slot is out of range (InvalidArgument) or its type
\* cannot be inferred; a group with a type of its own takes it as it is and
\* causes no failure.
C18_LookupOnlyIfUntyped ==
    pc = "synthesized" =>
        /\ status.code = "OK" <=>
              \A k \in FeedGroups :
                  Untyped(k) => ~(NodeAbsent(k) \/ SlotOutOfRange(k) \/ InferenceFails(k))
        /\ status.code # "OK" => \E k \in FeedGroups : Untyped(k) /\ FailsFor(k)
        /\ ExplicitTypesTaken

\* C18, amended: the node of every group is looked up, and synthesize fails
\* with NotFound when the node of any group is absent, a type of its own or
\* not; only the type inference, with its InvalidArgument for a slot out of
\* range, is left out for a group with a type of its own, which is taken as
\* it is.
C18_LookupForEveryGroup ==
    pc = "synthesized" =>
        /\ status.code = "OK" <=>
              \A k \in FeedGroups :
                  /\ ~NodeAbsent(k)
                  /\ Untyped(k) => ~(SlotOutOfRange(k) \/ InferenceFails(k))
        /\ status.code # "OK" => \E k \in FeedGroups : FailsFor(k)
        /\ ExplicitTypesTaken

\* A synthesize that fails with NotFound although every feed has a type of
\* its own.
C18_Witness ==
    /\ pc = "synthesized" /\ status.code = "NotFound"
    /\ FeedGroups # {}
    /\ \A k \in FeedGroups : ~Untyped(k)

\* The type of the tensor the node of the graph gives.
InferredType(k) ==
    LET i == CHOOSE j \in FedNodes(k) : TRUE
        t == OpRegistry[graph_before[i].op][LastFeed(k).id.output_index + 1]
    IN  IF t = "DT_FLOAT_REF" THEN "DT_FLOAT" ELSE t

\* C19: a successful synthesize appends exactly one placeholder node for
\* each fed tensor, however many feeds are on it: as many nodes as distinct
\* tensors, the node of a tensor having the type (its own, else the inferred
\* one) and the shape of the last feed on that tensor; the remapping has one
\* entry per tensor, naming that node.
C19_OnePlaceholderPerTensor ==
    (pc = "synthesized" /\ status.code = "OK") =>
        /\ Len(graph_def) = Len(graph_before) + Cardinality(FeedGroups)
        /\ DOMAIN feed_remapping = FeedGroups
        /\ \A k \in FeedGroups :
              \E p \in (Len(graph_before) + 1)..Len(graph_def) :
                  /\ graph_def[p].name = feed_remapping[k]
                  /\ graph_def[p].op = "PlaceholderV2"
                  /\ graph_def[p].attr.dtype =
                        IF Untyped(k) THEN InferredType(k) ELSE LastFeed(k).type
                  /\ graph_def[p].attr.shape = LastFeed(k).shape
                  /\ \A q \in (Len(graph_before) + 1)..Len(graph_def) :
                        graph_def[q].name = graph_def[p].name => q = p

\* Two feeds on one tensor that differ in type and shape, the last one
\* without a type of its own: one placeholder.
C19_Witness ==
    /\ pc = "synthesized" /\ status.code = "OK"
    /\ Len(config.feed) = 2 /\ Cardinality(FeedGroups) = 1
    /\ config.feed[1].type # config.feed[2].type
    /\ config.feed[1].shape # config.feed[2].shape
    /\ config.feed[2].type = "DT_INVALID"
    /\ Len(graph_def) = Len(graph_before) + 1

(***************************************************************************)
(* C21: a failed synthesize.                                               *)
(***************************************************************************)
\* The group resolves: its node is in the graph and its type is its own or
\* can be inferred.
Resolves(k) ==
    /\ ~NodeAbsent(k)
    /\ Untyped(k) => ~(SlotOutOfRange(k) \/ InferenceFails(k))

\* C21: when synthesize fails (NotFound for a missing feed node,
\* InvalidArgument for a slot out of range, or an error of the type
\* inference), the graph is exactly as it was before the call: it has the
\* same nodes in the same order, none of them a placeholder that was added,
\* and every input of every node is the string it was, whichever groups
\* resolved before the one that failed.
C21_FailureLeavesGraph ==
    (pc = "synthesized" /\ status.code # "OK") =>
        /\ graph_def = graph_before
        /\ Len(graph_def) = Len(graph_before)
        /\ \A i \in DOMAIN graph_def :
              /\ graph_def[i].op # "PlaceholderV2"
              /\ graph_def[i].input = graph_before[i].input
        /\ \E k \in FeedGroups : FailsFor(k)

\* A failed synthesize in which a group that resolves comes, in key order,
\* before the group that fails, and a node of the graph has a data input on
\* the tensor of the group that resolves.
C21_Witness ==
    /\ pc = "synthesized" /\ status.code # "OK"
    /\ \E k, f \in FeedGroups :
          /\ StrLess(k, f)
          /\ Resolves(k)
          /\ FailsFor(f)
          /\ \E i \in DOMAIN graph_before :
                \E j \in DOMAIN graph_before[i].input :
                    /\ ~IsControlInput(graph_before[i].input[j])
                    /\ CanonicalRef(graph_before[i].input[j]) = k

====
